---- MODULE Spec2Model ----
(***************************************************************************)
(* finance-bro: the RMI signal detector / profit simulator                 *)
(* (calculateRMIProfit, components/charts/RMIChart.tsx) and the periodic   *)
(* multi-symbol scan of the notification feed (NotificationBoard).         *)
(*                                                                         *)
(* The specifications that share the module:                               *)
(*   SpecProfit  one call of calculateRMIProfit, one action per loop       *)
(*               iteration, on inputs drawn by InitProfit;                 *)
(*   SpecBoard   one NotificationBoard instance: mount, timer, parameter   *)
(*               changes, fetch completion, unmount;                       *)
(*   SpecBoardFair  the same instance within one staleness window, with    *)
(*               the fairness its scheduling guarantees;                   *)
(*   SpecToggle  the indicator checkboxes of NotificationBoard alone: the  *)
(*               scans of every set of enabled indicators;                 *)
(*   SpecSMA     one call of SMA, one action per output entry;             *)
(*   SpecAnalysis  one AIStockAnalysis instance and the browser storage    *)
(*               that keeps its quota.                                     *)
(***************************************************************************)
EXTENDS Integers, Sequences, FiniteSets, TLC

VARIABLES
    \* ---- calculateRMIProfit (RMIChart.tsx:35-73) ----
    prices,            \* argument prices
    rmiData,           \* argument rmiData
    i,                 \* loop index (0-based, as in the code)
    capital,           \* running capital, an exact fraction <<num, den>>
    latestBuyPrice,
    latestSellPrice,
    buyPoints,
    sellPoints,
    profit,            \* the returned profit (Undef until the return)
    pc,                \* "loop" | "close" | "return" | "done" | "idle"
    \* ---- NotificationBoard (part_002:82-247) ----
    life,              \* "constructed" | "mounted" | "unmounted"
    availableStocks,   \* the prop
    stocksPending,     \* the prop is a new object, the effect of lines 237-239 has not run
    stocksQueued,      \* setCurrentStocks was called, its render has not committed
    scanPending,       \* a commit made a new closure, the effect of lines 241-247 has not run
    cleanupPending,    \* the component is removed, the cleanup of line 246 has not run
    currentStocks,
    notifications,
    lastUpdateTime,    \* the value last given to setLastUpdateTime
    renderedLastUpdateTime,  \* lastUpdateTime in the committed render: what a new closure captures
    selectedPeriod,
    enabledIndicators,
    isLoading,
    error,
    cachedDataRef,
    lastFetchTimeRef,
    callback,          \* the memoised checkForSignals closure
    timers,            \* the pending interval timers: [id, last, cb]
    intervalId,        \* the timer id the mounted effect will clear
    inflight,          \* invocations of checkForSignals suspended on their fetch
    now,               \* the clock, in minutes
    nCycles,           \* history: invocations of checkForSignals so far
    lastCycle,         \* history: the last invocation, as it started
    finished,          \* history: the invocation that ended last, and how
    lastOutput,        \* history: what the last successful cycle handed to setNotifications
    cacheFetch,        \* history: the request whose response cachedDataRef holds
    \* ---- SMA (utils/Indicators, as section 4.1 of the specification words it) ----
    smaSeries,         \* argument series
    smaPeriod,         \* argument period
    smaOut,            \* the output built so far
    smaSum,            \* the sum of the closes of the trailing window
    smaIndex,          \* the next index (0-based)
    smaPc,             \* "run" | "done" | "error" | "idle"
    \* ---- AIStockAnalysis (part_001:51-159) ----
    analysisLife,      \* "idle" | "constructed" | "mounted"
    user,              \* the prop: TRUE for a signed-in user, FALSE for null
    summary,
    analysisLoading,   \* the component's isLoading
    hasUsedFreeTry,
    analysisRendered,  \* hasUsedFreeTry and isLoading in the committed render
    dailyLimit,        \* the state shown as "analyses remaining"
    localStorage,      \* key -> stored string, Null for a missing key
    today,             \* getCurrentDate(), a day number
    call,              \* the invocation of generateSummary suspended on an await
    outcome            \* history: how the last invocation of generateSummary went on

profitVars == <<prices, rmiData, i, capital, latestBuyPrice, latestSellPrice,
                buyPoints, sellPoints, profit, pc>>
boardVars == <<life, availableStocks, stocksPending, stocksQueued, scanPending,
               cleanupPending, renderedLastUpdateTime, currentStocks, notifications, lastUpdateTime,
               selectedPeriod, enabledIndicators, isLoading, error, cachedDataRef,
               lastFetchTimeRef, callback, timers, intervalId, inflight, now, nCycles,
               lastCycle, finished, lastOutput, cacheFetch>>
smaVars == <<smaSeries, smaPeriod, smaOut, smaSum, smaIndex, smaPc>>
analysisVars == <<analysisLife, user, summary, analysisLoading, hasUsedFreeTry,
                  analysisRendered, dailyLimit, localStorage, today, call, outcome>>
vars == <<profitVars, boardVars, smaVars, analysisVars>>

-----------------------------------------------------------------------------
(* JavaScript values.  Numbers are integers; null, undefined and NaN are    *)
(* three sentinels outside the range of any price or oscillator value.      *)
Null == -1
Undef == -2
NaN == -3

\* ToNumber(null) = 0, ToNumber(undefined) = NaN.
IsNaN(v) == v = NaN
ToNumber(v) == IF v = Null THEN 0 ELSE IF v = Undef THEN NaN ELSE v

\* a < b and a > b: false as soon as one side converts to NaN.
JsLt(a, b) ==
    /\ ~IsNaN(ToNumber(a))
    /\ ~IsNaN(ToNumber(b))
    /\ ToNumber(a) < ToNumber(b)
JsGt(a, b) ==
    /\ ~IsNaN(ToNumber(a))
    /\ ~IsNaN(ToNumber(b))
    /\ ToNumber(a) > ToNumber(b)
\* a != null (loose): false for null and for undefined.
LooseNotNull(a) == a # Null /\ a # Undef
\* a !== null (strict).
StrictNotNull(a) == a # Null

\* arr[k] for a 0-based index k; out of range reads undefined.
At(arr, k) == IF k >= 0 /\ k < Len(arr) THEN arr[k + 1] ELSE Undef

-----------------------------------------------------------------------------
(* Exact fractions <<num, den>>, den > 0, in lowest terms; the results of   *)
(* a division by zero are <<1, 0>> (Infinity), <<-1, 0>> (-Infinity) and    *)
(* <<0, 0>> (NaN), and the sums and products below propagate them as the    *)
(* floating-point operations do.                                            *)
NaNFrac == <<0, 0>>
RECURSIVE Gcd(_, _)
Gcd(a, b) == IF b = 0 THEN a ELSE Gcd(b, a % b)
Abs(a) == IF a < 0 THEN 0 - a ELSE a
Frac(n, d) ==
    IF n = 0 /\ d = 0 THEN NaNFrac
    ELSE LET s == IF d < 0 THEN 0 - 1 ELSE 1
             g == Gcd(Abs(n), Abs(d))
         IN  <<(s * n) \div g, (s * d) \div g>>
FracOfInt(n) == <<n, 1>>
FracAdd(a, b) == Frac(a[1] * b[2] + b[1] * a[2], a[2] * b[2])
FracSub(a, b) == Frac(a[1] * b[2] - b[1] * a[2], a[2] * b[2])
FracMul(a, b) == Frac(a[1] * b[1], a[2] * b[2])

-----------------------------------------------------------------------------
(* calculateRMIProfit, RMIChart.tsx:35-73.                                  *)
BuyThreshold == 30
SellThreshold == 70
InitialCapital == 100

\* The local variables of one call, after line 40.
ProfitStart ==
    [capital |-> FracOfInt(InitialCapital), latestBuyPrice |-> Null,
     latestSellPrice |-> Null, buyPoints |-> <<>>, sellPoints |-> <<>>]

\* line 44: rmiData[i - 1] < 30 && rmiData[i] > 30 && rmiData[i - 1] != null
BuySignal(rmi, k) ==
    /\ JsLt(At(rmi, k - 1), BuyThreshold)
    /\ JsGt(At(rmi, k), BuyThreshold)
    /\ LooseNotNull(At(rmi, k - 1))

\* lines 50-52: rmiData[i - 1] > 70 && rmiData[i] < 70 && latestBuyPrice !== null
SellSignal(rmi, k, lbp) ==
    /\ JsGt(At(rmi, k - 1), SellThreshold)
    /\ JsLt(At(rmi, k), SellThreshold)
    /\ StrictNotNull(lbp)

\* 1 + (p - p0) / p0, lines 55 and 66.
TradeFactor(p, p0) ==
    IF IsNaN(ToNumber(p)) \/ IsNaN(ToNumber(p0)) THEN NaNFrac
    ELSE FracAdd(FracOfInt(1), Frac(ToNumber(p) - ToNumber(p0), ToNumber(p0)))

\* { x: i, y: rmiData[i], price: prices[i] }
Point(ps, rmi, k) == [x |-> k, y |-> At(rmi, k), price |-> At(ps, k)]

\* A buy that also forgets the last sell.
BuyBranchResetsSell(st, ps, rmi, k) ==
    [st EXCEPT !.latestBuyPrice = At(ps, k),
               !.latestSellPrice = Null,
               !.buyPoints = Append(@, Point(ps, rmi, k))]

\* lines 45-46
BuyBranch(st, ps, rmi, k) ==
    [st EXCEPT !.latestBuyPrice = At(ps, k),
               !.buyPoints = Append(@, Point(ps, rmi, k))]

\* A sell that leaves the entry price in place.
SellBranchKeepsBuy(st, ps, rmi, k) ==
    [st EXCEPT !.capital = FracMul(@, TradeFactor(At(ps, k), st.latestBuyPrice)),
               !.sellPoints = Append(@, Point(ps, rmi, k)),
               !.latestSellPrice = At(ps, k)]

\* lines 55-58
SellBranch(st, ps, rmi, k) ==
    [st EXCEPT !.capital = FracMul(@, TradeFactor(At(ps, k), st.latestBuyPrice)),
               !.sellPoints = Append(@, Point(ps, rmi, k)),
               !.latestBuyPrice = Null,
               !.latestSellPrice = At(ps, k)]

\* One iteration of the loop body, lines 43-59.
ProfitStep(st, ps, rmi, k) ==
    IF BuySignal(rmi, k) THEN BuyBranch(st, ps, rmi, k)
    ELSE IF SellSignal(rmi, k, st.latestBuyPrice) THEN SellBranch(st, ps, rmi, k)
    ELSE st

\* The end of the pass without the close of the open position.
ProfitCloseSkipped(st, ps) == st

\* A close of the open position that is recorded like a sell of the loop.
ProfitCloseEmitsSell(st, ps) ==
    IF StrictNotNull(st.latestBuyPrice)
    THEN [st EXCEPT !.capital =
              FracMul(@, TradeFactor(At(ps, Len(ps) - 1), st.latestBuyPrice)),
                    !.sellPoints =
              Append(@, [x |-> Len(ps) - 1, y |-> Undef, price |-> At(ps, Len(ps) - 1)]),
                    !.latestBuyPrice = Null,
                    !.latestSellPrice = At(ps, Len(ps) - 1)]
    ELSE st

\* lines 63-67: the open position is closed at the last price.
ProfitClose(st, ps) ==
    IF StrictNotNull(st.latestBuyPrice)
    THEN [st EXCEPT !.capital =
              FracMul(@, TradeFactor(At(ps, Len(ps) - 1), st.latestBuyPrice))]
    ELSE st

\* line 70
ProfitOf(cap) == FracSub(cap, FracOfInt(InitialCapital))

\* The loop of line 42 from index k on.
RECURSIVE ProfitLoop(_, _, _, _)
ProfitLoop(st, ps, rmi, k) ==
    IF k < Len(rmi) THEN ProfitLoop(ProfitStep(st, ps, rmi, k), ps, rmi, k + 1)
    ELSE st

\* line 72: { profit, buyPoints, sellPoints, latestBuyPrice, latestSellPrice }.
ProfitResult(st) ==
    [profit |-> ProfitOf(st.capital), buyPoints |-> st.buyPoints,
     sellPoints |-> st.sellPoints, latestBuyPrice |-> st.latestBuyPrice,
     latestSellPrice |-> st.latestSellPrice]

\* The whole call.
calculateRMIProfit(ps, rmi) ==
    ProfitResult(ProfitClose(ProfitLoop(ProfitStart, ps, rmi, 1), ps))

\* The locals of the running call, as one record.
Locals ==
    [capital |-> capital, latestBuyPrice |-> latestBuyPrice,
     latestSellPrice |-> latestSellPrice, buyPoints |-> buyPoints,
     sellPoints |-> sellPoints]

SetLocals(st) ==
    /\ capital' = st.capital
    /\ latestBuyPrice' = st.latestBuyPrice
    /\ latestSellPrice' = st.latestSellPrice
    /\ buyPoints' = st.buyPoints
    /\ sellPoints' = st.sellPoints

(* Inputs of the call.  MaxLen bounds the length of the two series; the     *)
(* oscillator values cover every outcome of the four comparisons of lines   *)
(* 44-52 (below 30, 30, between, 70, above 70, null, undefined).            *)
MaxLen == 4
RmiVals == {Undef, Null, 20, 30, 50, 70, 80}

\* Price series of length n: rising, falling, and two with null closes.
PriceSeries(n) ==
    { [k \in 1..n |-> k],
      [k \in 1..n |-> n + 1 - k],
      [k \in 1..n |-> IF k % 2 = 1 THEN Null ELSE k],
      [k \in 1..n |-> IF k % 2 = 0 THEN Null ELSE k] }

\* One step of the for loop: the test of line 42 and, when it holds, the body.
LoopStep ==
    /\ pc = "loop"
    /\ i < Len(rmiData)
    /\ SetLocals(ProfitStep(Locals, prices, rmiData, i))
    /\ i' = i + 1
    /\ UNCHANGED <<prices, rmiData, profit, pc>>

LoopExit ==
    /\ pc = "loop"
    /\ ~(i < Len(rmiData))
    /\ pc' = "close"
    /\ UNCHANGED <<prices, rmiData, i, capital, latestBuyPrice, latestSellPrice,
                   buyPoints, sellPoints, profit>>

\* lines 62-67
CloseOpen ==
    /\ pc = "close"
    /\ SetLocals(ProfitClose(Locals, prices))
    /\ pc' = "return"
    /\ UNCHANGED <<prices, rmiData, i, profit>>

\* lines 70-72
Return ==
    /\ pc = "return"
    /\ profit' = ProfitOf(capital)
    /\ pc' = "done"
    /\ UNCHANGED <<prices, rmiData, i, capital, latestBuyPrice, latestSellPrice,
                   buyPoints, sellPoints>>

ProfitEntry(ps, rmi) ==
    /\ prices = ps
    /\ rmiData = rmi
    /\ i = 1
    /\ capital = ProfitStart.capital
    /\ latestBuyPrice = ProfitStart.latestBuyPrice
    /\ latestSellPrice = ProfitStart.latestSellPrice
    /\ buyPoints = ProfitStart.buyPoints
    /\ sellPoints = ProfitStart.sellPoints
    /\ profit = Undef
    /\ pc = "loop"

ProfitIdle ==
    /\ prices = <<>>
    /\ rmiData = <<>>
    /\ i = 1
    /\ capital = ProfitStart.capital
    /\ latestBuyPrice = Null
    /\ latestSellPrice = Null
    /\ buyPoints = <<>>
    /\ sellPoints = <<>>
    /\ profit = Undef
    /\ pc = "idle"

-----------------------------------------------------------------------------
(* NotificationBoard, part_002:82-247.                                      *)
(*                                                                          *)
(* Time is counted in minutes.  A click is one action, taken together    *)
(* with the render it forces; a passive effect, the render of an update     *)
(* queued after an await, and the cleanup of the removed component are      *)
(* steps of their own.  An invocation of checkForSignals is split at its    *)
(* only await (line 138).  After the unmount React drops every state        *)
(* update, while the two refs stay plain mutable objects that a suspended   *)
(* or timer-started invocation still writes.                                *)

FiveMinutes == 5
MaxTicks == 2         \* the clock advances this many times
MountTime == 10       \* the clock at construction
MaxCycles == 2        \* the user's changes stop once this many invocations ran,
                      \* the unmount comes before any invocation beyond them

Periods == {"1m", "1w"}                      \* of periodOptions, lines 42-50
IndicatorKeys == <<"RMI", "RSI", "MACD">>    \* indicators, lines 52-71
ToggleKeys == {"RMI", "RSI", "MACD"}         \* the checkboxes, lines 284-293
Universes == {<<>>, <<"AAPL", "MSFT", "NVDA">>}   \* values of the availableStocks prop

\* An object { key: boolean } keeps its keys in insertion order: a sequence
\* of [key, on] pairs.
InitialEnabled ==
    [k \in 1..Len(IndicatorKeys) |->
        [key |-> IndicatorKeys[k], on |-> IndicatorKeys[k] = "RMI"]]

HasKey(obj, key) == \E k \in 1..Len(obj) : obj[k].key = key
\* obj[key]; a missing key reads undefined, which is falsy.
Enabled(obj, key) == \E k \in 1..Len(obj) : obj[k].key = key /\ obj[k].on

\* A toggle that deletes the key and inserts it again, as the last key.
ToggleMovesKeyLast(prev, indicator) ==
    Append(SelectSeq(prev, LAMBDA e : e.key # indicator),
           [key |-> indicator, on |-> ~Enabled(prev, indicator)])

\* lines 105-108: { ...prev, [indicator]: !prev[indicator] }
toggleIndicator(prev, indicator) ==
    IF HasKey(prev, indicator)
    THEN [k \in 1..Len(prev) |->
            IF prev[k].key = indicator
            THEN [key |-> indicator, on |-> ~prev[k].on]
            ELSE prev[k]]
    ELSE Append(prev, [key |-> indicator, on |-> TRUE])

\* JSON.stringify of such an object: the keys and values in insertion order.
RECURSIVE JsonStringify(_)
JsonStringify(obj) ==
    IF obj = <<>> THEN <<>>
    ELSE <<Head(obj).key, IF Head(obj).on THEN "true" ELSE "false">>
         \o JsonStringify(Tail(obj))

\* lastFetchTimeRef.current === null
NullRef == [time |-> Null, period |-> "", enabledIndicators |-> <<>>]

\* The test with a dataset already stale at exactly five minutes.
ShouldFetchAtFiveMinutes(ref, currentTime, period, enabled) ==
    \/ ref = NullRef
    \/ currentTime - ref.time >= FiveMinutes
    \/ period # ref.period
    \/ JsonStringify(enabled) # JsonStringify(ref.enabledIndicators)

\* lines 126-132
ShouldFetchNewData(ref, currentTime, period, enabled) ==
    \/ ref = NullRef
    \/ currentTime - ref.time > FiveMinutes
    \/ period # ref.period
    \/ JsonStringify(enabled) # JsonStringify(ref.enabledIndicators)

\* The closure useCallback keeps (line 119, dependencies on line 235): the
\* values of the render that created it.
MkCallback(stocks, period, enabled, lut) ==
    [stocks |-> stocks, period |-> period, enabled |-> enabled,
     lastUpdateTime |-> lut]

(* What the Price Data Provider answers.  A response maps each symbol it    *)
(* knows to [hasHistory, history, rmi, rsi, macdLine, signalLine]: history  *)
(* is the sequence of [date, Close] entries in key order, date being the    *)
(* time value of new Date(key), NaN for a key that does not parse; rmi and  *)
(* rsi are the series RMI and RSI compute from the closes, macdLine and     *)
(* signalLine those of MACD (utils/Indicators is not among the sources).    *)
(* A symbol without entry is not in the DOMAIN; an entry may come without   *)
(* its history.                                                             *)
DataChoices == {1, 2, 3}

\* The position of a symbol in the list the fetch was made for.
SymbolIndex(symbols, s) == CHOOSE k \in 1..Len(symbols) : symbols[k] = s

\* Answer 1: every symbol has its history.  The first symbol bought a while
\* ago (its MACD line only fell below the signal line), the second sold and
\* bought again at the last point; the others sold and then crossed up again
\* at a last point whose Close is null (JSON has no NaN; line 166 filters
\* undefined only), with no RSI and no MACD event.
FullEntry(k, t) ==
    IF k = 1
    THEN [hasHistory |-> TRUE,
          history |-> <<[date |-> t - 7, Close |-> 5],
                        [date |-> t - 6, Close |-> 6],
                        [date |-> t, Close |-> 7]>>,
          rmi |-> <<20, 50, 50>>,
          rsi |-> <<20, 50, 50>>,
          macdLine |-> <<3, 1, 1>>,
          signalLine |-> <<2, 2, 2>>]
    ELSE IF k = 2
    THEN [hasHistory |-> TRUE,
          history |-> <<[date |-> t - 3, Close |-> 5],
                        [date |-> t - 2, Close |-> 6],
                        [date |-> t - 1, Close |-> 4],
                        [date |-> t, Close |-> 7]>>,
          rmi |-> <<20, 80, 20, 50>>,
          rsi |-> <<20, 80, 20, 50>>,
          macdLine |-> <<1, 3, 1, 3>>,
          signalLine |-> <<2, 2, 2, 2>>]
    ELSE [hasHistory |-> TRUE,
          history |-> <<[date |-> t - 3, Close |-> 5],
                        [date |-> t - 2, Close |-> 6],
                        [date |-> t - 1, Close |-> 4],
                        [date |-> t, Close |-> Null]>>,
          rmi |-> <<20, 80, 20, 50>>,
          rsi |-> <<50, 50, 50, 50>>,
          macdLine |-> <<3, 3, 3, 3>>,
          signalLine |-> <<2, 2, 2, 2>>]

\* Answer 2: the first symbol has no entry, the second an entry without
\* history, the others a history with one point that has no Close.
PartialEntry(k, t) ==
    IF k = 2
    THEN [hasHistory |-> FALSE, history |-> <<>>, rmi |-> <<>>, rsi |-> <<>>,
          macdLine |-> <<>>, signalLine |-> <<>>]
    ELSE [hasHistory |-> TRUE,
          history |-> <<[date |-> t - 3, Close |-> 5],
                        [date |-> t - 2, Close |-> Undef],
                        [date |-> t - 1, Close |-> 6],
                        [date |-> t, Close |-> 4]>>,
          rmi |-> <<20, 80, 50>>,
          rsi |-> <<20, 80, 50>>,
          macdLine |-> <<1, 3, 1>>,
          signalLine |-> <<2, 2, 2>>]

\* Answer 3: the history of the first symbol has a key that is no date; the
\* other symbols are as in answer 1.
MalformedEntry(k, t) ==
    IF k = 1
    THEN [hasHistory |-> TRUE,
          history |-> <<[date |-> NaN, Close |-> 5],
                        [date |-> t, Close |-> 6]>>,
          rmi |-> <<20, 50>>,
          rsi |-> <<20, 50>>,
          macdLine |-> <<1, 3>>,
          signalLine |-> <<2, 2>>]
    ELSE FullEntry(k, t)

Response(symbols, t, choice) ==
    IF choice = 1
    THEN [s \in {symbols[k] : k \in 1..Len(symbols)} |->
            FullEntry(SymbolIndex(symbols, s), t)]
    ELSE IF choice = 2
    THEN [s \in {symbols[k] : k \in 2..Len(symbols)} |->
            PartialEntry(SymbolIndex(symbols, s), t)]
    ELSE [s \in {symbols[k] : k \in 1..Len(symbols)} |->
            MalformedEntry(SymbolIndex(symbols, s), t)]

\* line 156: the symbol has an entry with a history.
HasHistory(response, s) == s \in DOMAIN response /\ response[s].hasHistory

\* line 163: format(date, ...) throws a RangeError for an invalid Date.
InvalidTimeValue == "Invalid time value"
FormatThrows(history) == \E j \in 1..Len(history) : IsNaN(history[j].date)

\* lines 155-166: the loop throws at the first symbol whose history has a
\* key that is no date.
Throws(response, cl) ==
    \E k \in 1..Len(cl.stocks) :
        /\ HasHistory(response, cl.stocks[k])
        /\ FormatThrows(response[cl.stocks[k]].history)

\* line 160
Dates(history) == [k \in 1..Len(history) |-> history[k].date]

\* lines 161-166: the closes, those that are undefined filtered out.
RECURSIVE ClosingPrices(_)
ClosingPrices(history) ==
    IF history = <<>> THEN <<>>
    ELSE IF Head(history).Close # Undef
         THEN <<Head(history).Close>> \o ClosingPrices(Tail(history))
         ELSE ClosingPrices(Tail(history))

\* lines 184-198; the id is left without its Date.now() suffix.
Notification(symbol, key, signal, price, timestamp, lut) ==
    [id |-> <<symbol, key, signal>>, stock |-> symbol, indicator |-> key,
     signal |-> signal, price |-> price, timestamp |-> timestamp,
     isNew |-> timestamp > lut]

(* calculateRSIProfit and calculateMACDProfit live in charts/RSIChart and   *)
(* charts/MACD-Chart, which are not among the sources (lines 13-14 import   *)
(* them).  They are modelled as sections 4.2 and 4.3 of the specification   *)
(* describe the detector: one ascending pass that keeps the position; a buy *)
(* when the position is flat and the value crosses upward, a sell when the  *)
(* position is long and the value crosses downward; an index whose previous *)
(* or current value is undefined is skipped; the entry price is reported    *)
(* while the last event is an unmatched buy, the exit price while it is a   *)
(* sell.  Of the result only the fields the board reads are kept.           *)

HasValue(v) == v # Undef /\ v # Null /\ ~IsNaN(v)

\* RSI: from below 30 to 30 or more, and from above 70 to 70 or less.
RSICrossing(rsi, k) ==
    IF ~HasValue(At(rsi, k - 1)) \/ ~HasValue(At(rsi, k)) THEN "none"
    ELSE IF At(rsi, k - 1) < BuyThreshold /\ At(rsi, k) >= BuyThreshold THEN "up"
    ELSE IF At(rsi, k - 1) > SellThreshold /\ At(rsi, k) <= SellThreshold THEN "down"
    ELSE "none"

\* MACD: macdLine from not above signalLine to above it, and from not below
\* it to below it.
MACDCrossing(macdLine, signalLine, k) ==
    IF \/ ~HasValue(At(macdLine, k - 1)) \/ ~HasValue(At(macdLine, k))
       \/ ~HasValue(At(signalLine, k - 1)) \/ ~HasValue(At(signalLine, k))
    THEN "none"
    ELSE IF /\ At(macdLine, k - 1) <= At(signalLine, k - 1)
            /\ At(macdLine, k) > At(signalLine, k) THEN "up"
    ELSE IF /\ At(macdLine, k - 1) >= At(signalLine, k - 1)
            /\ At(macdLine, k) < At(signalLine, k) THEN "down"
    ELSE "none"

DetectorStart ==
    [buyPoints |-> <<>>, sellPoints |-> <<>>,
     latestBuyPrice |-> Null, latestSellPrice |-> Null]

\* One index of the pass; crossing is the crossing found at index k.
DetectorStep(st, ps, crossing, k) ==
    IF crossing = "up" /\ st.latestBuyPrice = Null
    THEN [st EXCEPT !.buyPoints = Append(@, [x |-> k, price |-> At(ps, k)]),
                    !.latestBuyPrice = At(ps, k),
                    !.latestSellPrice = Null]
    ELSE IF crossing = "down" /\ st.latestBuyPrice # Null
    THEN [st EXCEPT !.sellPoints = Append(@, [x |-> k, price |-> At(ps, k)]),
                    !.latestBuyPrice = Null,
                    !.latestSellPrice = At(ps, k)]
    ELSE st

\* The pass from index k on; crossings[k] is the crossing at index k.
RECURSIVE DetectorLoop(_, _, _, _)
DetectorLoop(st, ps, crossings, k) ==
    IF k <= Len(crossings)
    THEN DetectorLoop(DetectorStep(st, ps, crossings[k], k), ps, crossings, k + 1)
    ELSE st

calculateRSIProfit(ps, rsi) ==
    DetectorLoop(DetectorStart, ps,
                 [k \in 1..(Len(rsi) - 1) |-> RSICrossing(rsi, k)], 1)

calculateMACDProfit(ps, macdLine, signalLine) ==
    DetectorLoop(DetectorStart, ps,
                 [k \in 1..(Len(macdLine) - 1) |->
                     MACDCrossing(macdLine, signalLine, k)], 1)

\* lines 173-182: the indicator's series and its calculateProfit.
CalculateProfit(key, closingPrices, entry) ==
    IF key = "MACD"
    THEN calculateMACDProfit(closingPrices, entry.macdLine, entry.signalLine)
    ELSE IF key = "RSI"
    THEN calculateRSIProfit(closingPrices, entry.rsi)
    ELSE calculateRMIProfit(closingPrices, entry.rmi)

\* lines 200-214: the record of the latest signal, the open buy looked at
\* first; at most one record.
LatestSignal(symbol, key, dates, r, lut) ==
    IF r.latestBuyPrice # Null /\ Len(r.buyPoints) > 0
    THEN <<Notification(symbol, key, "buy", r.latestBuyPrice,
                        At(dates, r.buyPoints[Len(r.buyPoints)].x), lut)>>
    ELSE IF r.latestSellPrice # Null /\ Len(r.sellPoints) > 0
    THEN <<Notification(symbol, key, "sell", r.latestSellPrice,
                        At(dates, r.sellPoints[Len(r.sellPoints)].x), lut)>>
    ELSE <<>>

\* lines 171-214: one indicator of one symbol.
IndicatorNotifications(symbol, key, entry, lut) ==
    LatestSignal(symbol, key, Dates(entry.history),
                 CalculateProfit(key, ClosingPrices(entry.history), entry), lut)

\* lines 169-216: the indicators from the k-th on, for one symbol.
RECURSIVE SymbolNotifications(_, _, _, _, _)
SymbolNotifications(symbol, entry, enabled, lut, k) ==
    IF k > Len(IndicatorKeys) THEN <<>>
    ELSE (IF Enabled(enabled, IndicatorKeys[k])
          THEN IndicatorNotifications(symbol, IndicatorKeys[k], entry, lut)
          ELSE <<>>)
         \o SymbolNotifications(symbol, entry, enabled, lut, k + 1)

\* lines 155-217: newNotifications, the symbols from the k-th on.
RECURSIVE NewNotifications(_, _, _)
NewNotifications(response, cl, k) ==
    IF k > Len(cl.stocks) THEN <<>>
    ELSE (IF HasHistory(response, cl.stocks[k])
          THEN SymbolNotifications(cl.stocks[k], response[cl.stocks[k]],
                                   cl.enabled, cl.lastUpdateTime, 1)
          ELSE <<>>)
         \o NewNotifications(response, cl, k + 1)

\* An insertion that compares nothing: the records stay in scan order.
InsertAtEnd(sorted, n) == Append(sorted, n)

\* lines 220-222: a stable sort, descending by timestamp.
RECURSIVE InsertByTimestamp(_, _)
InsertByTimestamp(sorted, n) ==
    IF sorted = <<>> THEN <<n>>
    ELSE IF Head(sorted).timestamp >= n.timestamp
         THEN <<Head(sorted)>> \o InsertByTimestamp(Tail(sorted), n)
         ELSE <<n>> \o sorted

RECURSIVE SortByTimestamp(_, _)
SortByTimestamp(list, k) ==
    IF k = 0 THEN <<>>
    ELSE InsertByTimestamp(SortByTimestamp(list, k - 1), list[k])

\* What a cycle hands to setNotifications.
Feed(response, cl) ==
    LET list == NewNotifications(response, cl, 1)
    IN  SortByTimestamp(list, Len(list))

-----------------------------------------------------------------------------
(* The invocations of checkForSignals.                                      *)

NoError == ""

\* What the promise of line 138 rejects with: an Error with its message, or
\* a value that is no Error.
RejectReasons ==
    {[isError |-> TRUE, message |-> "Network Error"],
     [isError |-> FALSE, message |-> ""]}

\* lines 229-233
ErrorMessage(reason) ==
    IF reason.isError
    THEN "Failed to fetch stock data: " \o reason.message
    ELSE "An unexpected error occurred while fetching stock data."

\* The RangeError format throws at line 163.
RangeError == [isError |-> TRUE, message |-> InvalidTimeValue]

\* The history record of an invocation: the closure's values and the time
\* it started at.
CycleRecord(id, cl, t, fetch) ==
    [id |-> id, start |-> t, symbols |-> cl.stocks, period |-> cl.period,
     enabled |-> cl.enabled, fetched |-> fetch]

NoCycle == CycleRecord(0, MkCallback(<<>>, "", <<>>, 0), 0, FALSE)

\* The request of line 138-143 as invocation c made it: the arguments of
\* fetchStockData and the time the invocation read at line 123.
FetchRequest(c) ==
    [symbols |-> c.cl.stocks, period |-> c.cl.period,
     enabled |-> c.cl.enabled, time |-> c.currentTime]

NoFetch == [symbols |-> <<>>, period |-> "", enabled |-> <<>>, time |-> Null]

\* One invocation up to its await (lines 119-143), or to its end when the
\* cached dataset is used (lines 152-225, or the catch of lines 226-234 when
\* the loop throws).  cl is the closure invoked; a timer that is still
\* pending invokes it after the component was removed, and React then drops
\* the state updates.
StartCycle(cl) ==
    LET id == nCycles + 1
        fetch == ShouldFetchNewData(lastFetchTimeRef, now, cl.period, cl.enabled)
        out == Feed(cachedDataRef, cl)
    IN  /\ nCycles' = id
        /\ lastCycle' = CycleRecord(id, cl, now, fetch)
        /\ UNCHANGED <<cachedDataRef, lastFetchTimeRef, cacheFetch>>
        /\ IF fetch
           THEN /\ inflight' = inflight \cup {[id |-> id, cl |-> cl, currentTime |-> now]}
                /\ UNCHANGED <<notifications, lastUpdateTime, lastOutput, finished>>
                /\ IF life # "unmounted"
                   THEN isLoading' = TRUE /\ error' = NoError
                   ELSE UNCHANGED <<isLoading, error>>
           ELSE IF Throws(cachedDataRef, cl)
           THEN /\ finished' = [id |-> id, outcome |-> "threw"]
                /\ UNCHANGED <<notifications, lastUpdateTime, lastOutput, inflight>>
                /\ IF life # "unmounted"
                   THEN isLoading' = FALSE /\ error' = ErrorMessage(RangeError)
                   ELSE UNCHANGED <<isLoading, error>>
           ELSE /\ finished' = [id |-> id, outcome |-> "ok"]
                /\ lastOutput' = out
                /\ UNCHANGED <<isLoading, inflight>>
                /\ IF life # "unmounted"
                   THEN /\ notifications' = lastOutput'
                        /\ lastUpdateTime' = now
                        /\ error' = NoError
                   ELSE UNCHANGED <<notifications, lastUpdateTime, error>>

\* lines 144-150 and 155-225: the fetch of invocation c resolved.  The refs
\* are written before the loop runs; when the loop throws, the catch of
\* lines 226-234 leaves the feed and reports the error.
FetchResolve(c, choice) ==
    LET response == Response(c.cl.stocks, c.currentTime, choice)
        out == Feed(cachedDataRef', c.cl)
    IN  /\ c \in inflight
        /\ inflight' = inflight \ {c}
        /\ cachedDataRef' = response
        /\ cacheFetch' = FetchRequest(c)
        /\ lastFetchTimeRef' =
               [time |-> c.currentTime, period |-> c.cl.period,
                enabledIndicators |-> c.cl.enabled]
        /\ IF Throws(cachedDataRef', c.cl)
           THEN /\ finished' = [id |-> c.id, outcome |-> "threw"]
                /\ UNCHANGED <<lastOutput, notifications, lastUpdateTime>>
                /\ IF life = "mounted"
                   THEN isLoading' = FALSE /\ error' = ErrorMessage(RangeError)
                   ELSE UNCHANGED <<isLoading, error>>
           ELSE /\ finished' = [id |-> c.id, outcome |-> "ok"]
                /\ lastOutput' = out
                /\ IF life = "mounted"
                   THEN /\ isLoading' = FALSE
                        /\ notifications' = lastOutput'
                        /\ lastUpdateTime' = c.currentTime
                        /\ error' = NoError
                   ELSE UNCHANGED <<isLoading, notifications, lastUpdateTime, error>>
        /\ UNCHANGED <<life, availableStocks, stocksPending, stocksQueued, scanPending,
                   cleanupPending, renderedLastUpdateTime,
                   currentStocks, selectedPeriod,
                       enabledIndicators, callback, timers, intervalId, now,
                       nCycles, lastCycle>>
        /\ UNCHANGED profitVars

\* A rejection that also forgets the cached dataset.
FetchRejectDropsCache(c, reason) ==
    /\ c \in inflight
    /\ inflight' = inflight \ {c}
    /\ finished' = [id |-> c.id, outcome |-> "failed"]
    /\ cachedDataRef' = <<>>
    /\ lastFetchTimeRef' = NullRef
    /\ cacheFetch' = NoFetch
    /\ IF life = "mounted"
       THEN isLoading' = FALSE /\ error' = ErrorMessage(reason)
       ELSE UNCHANGED <<isLoading, error>>
    /\ UNCHANGED <<life, availableStocks, stocksPending, stocksQueued, scanPending,
                   cleanupPending, renderedLastUpdateTime,
                   currentStocks, notifications,
                   lastUpdateTime, selectedPeriod, enabledIndicators,
                   callback, timers, intervalId, now, lastOutput, nCycles,
                   lastCycle>>
    /\ UNCHANGED profitVars

\* A rejection that also empties the feed.
FetchRejectClearsFeed(c, reason) ==
    /\ c \in inflight
    /\ inflight' = inflight \ {c}
    /\ finished' = [id |-> c.id, outcome |-> "failed"]
    /\ IF life = "mounted"
       THEN isLoading' = FALSE /\ error' = ErrorMessage(reason) /\ notifications' = <<>>
       ELSE UNCHANGED <<isLoading, error, notifications>>
    /\ UNCHANGED <<life, availableStocks, stocksPending, stocksQueued, scanPending,
                   cleanupPending, renderedLastUpdateTime,
                   currentStocks,
                   lastUpdateTime, selectedPeriod, enabledIndicators,
                   cachedDataRef, lastFetchTimeRef, cacheFetch, callback, timers,
                   intervalId, now, lastOutput, nCycles, lastCycle>>
    /\ UNCHANGED profitVars

\* A rejection that records the failed fetch as the last one.
FetchRejectWritesRecord(c, reason) ==
    /\ c \in inflight
    /\ inflight' = inflight \ {c}
    /\ finished' = [id |-> c.id, outcome |-> "failed"]
    /\ lastFetchTimeRef' =
           [time |-> c.currentTime, period |-> c.cl.period,
            enabledIndicators |-> c.cl.enabled]
    /\ IF life = "mounted"
       THEN isLoading' = FALSE /\ error' = ErrorMessage(reason)
       ELSE UNCHANGED <<isLoading, error>>
    /\ UNCHANGED <<life, availableStocks, stocksPending, stocksQueued, scanPending,
                   cleanupPending, renderedLastUpdateTime,
                   currentStocks, notifications,
                   lastUpdateTime, selectedPeriod, enabledIndicators,
                   cachedDataRef, cacheFetch, callback, timers,
                   intervalId, now, lastOutput, nCycles, lastCycle>>
    /\ UNCHANGED profitVars

\* A rejection that leaves the loading flag on.
FetchRejectKeepsLoading(c, reason) ==
    /\ c \in inflight
    /\ inflight' = inflight \ {c}
    /\ finished' = [id |-> c.id, outcome |-> "failed"]
    /\ IF life = "mounted"
       THEN error' = ErrorMessage(reason)
       ELSE UNCHANGED error
    /\ UNCHANGED <<life, availableStocks, stocksPending, stocksQueued, scanPending,
                   cleanupPending, renderedLastUpdateTime,
                   currentStocks, notifications,
                   lastUpdateTime, selectedPeriod, enabledIndicators, isLoading,
                   cachedDataRef, lastFetchTimeRef, cacheFetch, callback, timers,
                   intervalId, now, lastOutput, nCycles, lastCycle>>
    /\ UNCHANGED profitVars

\* lines 226-234: the fetch of invocation c rejected.
FetchReject(c, reason) ==
    /\ c \in inflight
    /\ inflight' = inflight \ {c}
    /\ finished' = [id |-> c.id, outcome |-> "failed"]
    /\ IF life = "mounted"
       THEN isLoading' = FALSE /\ error' = ErrorMessage(reason)
       ELSE UNCHANGED <<isLoading, error>>
    /\ UNCHANGED <<life, availableStocks, stocksPending, stocksQueued, scanPending,
                   cleanupPending, renderedLastUpdateTime,
                   currentStocks, notifications,
                   lastUpdateTime, selectedPeriod, enabledIndicators,
                   cachedDataRef, lastFetchTimeRef, cacheFetch, callback, timers,
                   intervalId, now, lastOutput, nCycles, lastCycle>>
    /\ UNCHANGED profitVars

\* lines 241-247: the cleanup of the previous run of the effect, then its
\* body: an invocation of the new closure and a new interval timer.
ClearInterval(ts, id) == {t \in ts : t.id # id}

RunScanEffect(cl) ==
    /\ StartCycle(cl)
    /\ intervalId' = intervalId + 1
    /\ timers' = ClearInterval(timers, intervalId)
                 \cup {[id |-> intervalId + 1, last |-> now, cb |-> cl]}

\* The first render's effects.
Mount ==
    /\ life = "constructed"
    /\ life' = "mounted"
    /\ RunScanEffect(callback)
    /\ UNCHANGED <<availableStocks, stocksPending, stocksQueued, scanPending,
                   cleanupPending, renderedLastUpdateTime,
                   currentStocks, selectedPeriod,
                   enabledIndicators, callback, now>>
    /\ UNCHANGED profitVars

(* The commits of the component.  React runs the passive effects of a     *)
(* commit in a task of their own, and once more before it renders again;   *)
(* a state update made in an effect is rendered in a later task; the       *)
(* render a click asks for is committed, and its effects run, before the   *)
(* click returns, without the updates that were queued by an effect.  So   *)
(* a change of the availableStocks prop reaches the scan in three steps:   *)
(* the effect of lines 237-239 queues setCurrentStocks (FlushEffects), the *)
(* render it asks for makes the new closure (CommitStocks), and the effect *)
(* of lines 241-247 of that commit cleans up and invokes the closure       *)
(* (FlushEffects); timers fire and fetches settle between these steps.     *)
(* With a root that renders effect updates synchronously the first two are *)
(* one task, whose outcome is that of the two steps taken in a row.        *)

\* The updates of a click's handler, committed with the effects of the
\* commit: a pending effect of lines 237-239 runs first and queues its
\* update, which this render leaves in the queue; a pending effect of lines
\* 241-247 has run first as well (FlushEffects is that step).  The render
\* of a click takes the updates of the click alone: a lastUpdateTime that a
\* cycle has set and no render has shown yet stays in the queue, and the
\* new closure captures the one rendered before.
ClickCommit(p, enabled) ==
    /\ life = "mounted"
    /\ ~scanPending
    /\ selectedPeriod' = p
    /\ enabledIndicators' = enabled
    /\ stocksPending' = FALSE
    /\ stocksQueued' = (stocksQueued \/ stocksPending)
    /\ callback' = MkCallback(currentStocks, p, enabled, renderedLastUpdateTime)
    /\ RunScanEffect(callback')
    /\ UNCHANGED <<life, availableStocks, currentStocks, scanPending,
                   cleanupPending, renderedLastUpdateTime, now>>
    /\ UNCHANGED profitVars

\* line 266: the Select's onValueChange.
ChangePeriod(p) ==
    /\ nCycles < MaxCycles
    /\ p # selectedPeriod
    /\ ClickCommit(p, enabledIndicators)

\* line 289: a checkbox's onCheckedChange.
ToggleIndicator(key) ==
    /\ nCycles < MaxCycles
    /\ ClickCommit(selectedPeriod, toggleIndicator(enabledIndicators, key))

\* The parent renders with a new availableStocks object.  The effects that
\* are pending run before the render: the one of lines 237-239 queues its
\* update here, the one of lines 241-247 has run (FlushEffects).  The commit
\* has the new prop and the state of the queued update, if there is one:
\* currentStocks is then the prop of the render before, the closure of line
\* 119 is made anew and the effect of lines 241-247 is pending; the effect
\* of lines 237-239 is pending for the new prop.  The interval timer of the
\* old closure stays.
ChangeStocks(u) ==
    /\ life = "mounted"
    /\ nCycles < MaxCycles
    /\ ~scanPending
    /\ availableStocks' = u
    /\ stocksPending' = TRUE
    /\ stocksQueued' = FALSE
    /\ renderedLastUpdateTime' = lastUpdateTime
    /\ IF stocksPending \/ stocksQueued
       THEN /\ currentStocks' = availableStocks
            /\ callback' = MkCallback(currentStocks', selectedPeriod,
                                      enabledIndicators, lastUpdateTime)
            /\ scanPending' = TRUE
       ELSE UNCHANGED <<currentStocks, callback, scanPending>>
    /\ UNCHANGED <<life, cleanupPending, notifications, lastUpdateTime,
                   selectedPeriod, enabledIndicators, isLoading, error,
                   cachedDataRef, lastFetchTimeRef, cacheFetch, timers,
                   intervalId, inflight, now, nCycles, lastCycle,
                   finished, lastOutput>>
    /\ UNCHANGED profitVars

\* The passive effects of the last commit, in the order of the component:
\* lines 237-239 call setCurrentStocks for the prop of that commit, lines
\* 241-247 clean up the previous run and invoke the closure of that commit.
FlushEffects ==
    /\ life = "mounted"
    /\ stocksPending \/ scanPending
    /\ stocksPending' = FALSE
    /\ stocksQueued' = (stocksQueued \/ stocksPending)
    /\ scanPending' = FALSE
    /\ IF scanPending
       THEN RunScanEffect(callback)
       ELSE UNCHANGED <<notifications, lastUpdateTime, isLoading, error,
                        cachedDataRef, lastFetchTimeRef, cacheFetch, timers,
                        intervalId, inflight, nCycles, lastCycle, finished,
                        lastOutput>>
    /\ UNCHANGED <<life, availableStocks, currentStocks, selectedPeriod,
                   cleanupPending, renderedLastUpdateTime,
                   enabledIndicators, callback, now>>
    /\ UNCHANGED profitVars

\* The render setCurrentStocks (line 238) asked for: currentStocks is the
\* prop, checkForSignals is a new closure (line 235) and the effect of lines
\* 241-247 is pending.  The render shows the other queued updates as well.
CommitStocks ==
    /\ life = "mounted"
    /\ stocksQueued
    /\ ~stocksPending
    /\ ~scanPending
    /\ currentStocks' = availableStocks
    /\ stocksQueued' = FALSE
    /\ callback' = MkCallback(currentStocks', selectedPeriod, enabledIndicators,
                              lastUpdateTime)
    /\ scanPending' = TRUE
    /\ renderedLastUpdateTime' = lastUpdateTime
    /\ UNCHANGED <<life, availableStocks, stocksPending, cleanupPending,
                   notifications, lastUpdateTime,
                   selectedPeriod, enabledIndicators, isLoading, error,
                   cachedDataRef, lastFetchTimeRef, cacheFetch, timers,
                   intervalId, inflight, now, nCycles, lastCycle,
                   finished, lastOutput>>
    /\ UNCHANGED profitVars

\* line 244: a pending interval timer fires, at least five minutes after it
\* was set or last fired (so the clock bounds the cycles the timers start).
TimerFire(t) ==
    /\ t \in timers
    /\ now - t.last >= FiveMinutes
    /\ StartCycle(t.cb)
    /\ timers' = (timers \ {t}) \cup {[t EXCEPT !.last = now]}
    /\ UNCHANGED <<life, availableStocks, stocksPending, stocksQueued, scanPending,
                   cleanupPending, renderedLastUpdateTime,
                   currentStocks, selectedPeriod,
                   enabledIndicators, callback, intervalId, now>>
    /\ UNCHANGED profitVars

\* The parent removes the component.  A pending effect of lines 241-247 has
\* run before (FlushEffects); an update still queued is dropped.  The
\* cleanup of line 246 is a passive effect: React runs it in a task after
\* this commit, and until then the interval timer is pending.
Unmount ==
    /\ life = "mounted"
    /\ nCycles <= MaxCycles
    /\ ~scanPending
    /\ life' = "unmounted"
    /\ cleanupPending' = TRUE
    /\ stocksPending' = FALSE
    /\ stocksQueued' = FALSE
    /\ UNCHANGED <<availableStocks, scanPending, renderedLastUpdateTime,
                   currentStocks, notifications, lastUpdateTime,
                   selectedPeriod, enabledIndicators, isLoading, error,
                   cachedDataRef, lastFetchTimeRef, cacheFetch, callback,
                   timers, intervalId,
                   inflight, now, nCycles, lastCycle, finished,
                   lastOutput>>
    /\ UNCHANGED profitVars

\* line 246: the cleanup of the removed component's effect.
RunCleanup ==
    /\ life = "unmounted"
    /\ cleanupPending
    /\ cleanupPending' = FALSE
    /\ timers' = ClearInterval(timers, intervalId)
    /\ UNCHANGED <<life, availableStocks, stocksPending, stocksQueued, scanPending,
                   renderedLastUpdateTime,
                   currentStocks, notifications, lastUpdateTime,
                   selectedPeriod, enabledIndicators, isLoading, error,
                   cachedDataRef, lastFetchTimeRef, cacheFetch, callback,
                   intervalId,
                   inflight, now, nCycles, lastCycle, finished,
                   lastOutput>>
    /\ UNCHANGED profitVars

\* The render of the updates a finished cycle queued (lines 219-225): the
\* committed render has the lastUpdateTime the cycle set.  Pending effects
\* run before a render, and an update of currentStocks that is queued is
\* rendered in the same commit (CommitStocks).
RenderUpdates ==
    /\ life = "mounted"
    /\ renderedLastUpdateTime # lastUpdateTime
    /\ ~stocksPending /\ ~stocksQueued /\ ~scanPending
    /\ renderedLastUpdateTime' = lastUpdateTime
    /\ UNCHANGED <<life, availableStocks, stocksPending, stocksQueued, scanPending,
                   cleanupPending,
                   currentStocks, notifications, lastUpdateTime,
                   selectedPeriod, enabledIndicators, isLoading, error,
                   cachedDataRef, lastFetchTimeRef, cacheFetch, callback,
                   timers, intervalId,
                   inflight, now, nCycles, lastCycle, finished,
                   lastOutput>>
    /\ UNCHANGED profitVars

\* Time passes; the clock advances by one staleness window at a time, which
\* yields every outcome of the comparisons of lines 128-129 and 244
\* (elapsed less than, equal to and more than five minutes).  The effects of
\* the first render run in its commit: no time passes before the mount; and
\* nothing reads the clock once the component is unmounted.  A fetch settles
\* within the window it was issued in (the request takes less than five
\* minutes); and React runs the pending effects and commits the renders
\* that were asked for before a window has passed.
Tick ==
    /\ life = "mounted"
    /\ ~stocksPending /\ ~stocksQueued /\ ~scanPending
    /\ renderedLastUpdateTime = lastUpdateTime
    /\ inflight = {}
    /\ now < MountTime + MaxTicks * FiveMinutes
    /\ now' = now + FiveMinutes
    /\ UNCHANGED <<life, availableStocks, stocksPending, stocksQueued, scanPending,
                   cleanupPending, renderedLastUpdateTime,
                   currentStocks, notifications,
                   lastUpdateTime, selectedPeriod, enabledIndicators, isLoading,
                   error, cachedDataRef, lastFetchTimeRef, cacheFetch, callback, timers,
                   intervalId, inflight, nCycles, lastCycle,
                   finished, lastOutput>>
    /\ UNCHANGED profitVars

\* The component after its useState/useRef initialisers, lines 86-102.
BoardConstructed(stocks) ==
    /\ life = "constructed"
    /\ availableStocks = stocks
    /\ stocksPending = FALSE
    /\ stocksQueued = FALSE
    /\ scanPending = FALSE
    /\ cleanupPending = FALSE
    /\ currentStocks = stocks
    /\ notifications = <<>>
    /\ lastUpdateTime = MountTime
    /\ renderedLastUpdateTime = MountTime
    /\ selectedPeriod = "1m"
    /\ enabledIndicators = InitialEnabled
    /\ isLoading = TRUE
    /\ error = NoError
    /\ cachedDataRef = <<>>
    /\ lastFetchTimeRef = NullRef
    /\ cacheFetch = NoFetch
    /\ callback = MkCallback(stocks, "1m", InitialEnabled, MountTime)
    /\ timers = {}
    /\ intervalId = 0
    /\ inflight = {}
    /\ now = MountTime
    /\ nCycles = 0
    /\ lastCycle = NoCycle
    /\ finished = [id |-> 0, outcome |-> "none"]
    /\ lastOutput = <<>>

-----------------------------------------------------------------------------
(* SMA(series, period).  The function lives in utils/Indicators, which is   *)
(* not among the sources (part_001:127 and part_003:265 call it); it is     *)
(* modelled as section 4.1 of the specification describes it: the period    *)
(* must satisfy 1 <= period <= len(series), the output is as long as the    *)
(* input, its first period - 1 entries are undefined and each other entry   *)
(* is the mean of the trailing period closes.  Entries are exact fractions. *)

NoValue == <<>>                     \* an undefined entry of the output

ValidPeriod(series, period) == 1 <= period /\ period <= Len(series)

\* A step that never drops the close leaving the window.
SmaStepKeepsOldest(st, series, period) ==
    LET k == st.index
        sum == st.sum + At(series, k)
    IN  [out |-> Append(st.out, IF k >= period - 1 THEN Frac(sum, period) ELSE NoValue),
         sum |-> sum, index |-> k + 1]

\* The entry at index st.index: the window takes in the close at that index
\* and drops the one that is period places back.
SmaStep(st, series, period) ==
    LET k == st.index
        sum == st.sum + At(series, k)
                - (IF k >= period THEN At(series, k - period) ELSE 0)
    IN  [out |-> Append(st.out, IF k >= period - 1 THEN Frac(sum, period) ELSE NoValue),
         sum |-> sum, index |-> k + 1]

SmaStart == [out |-> <<>>, sum |-> 0, index |-> 0]

RECURSIVE SmaLoop(_, _, _)
SmaLoop(st, series, period) ==
    IF st.index < Len(series) THEN SmaLoop(SmaStep(st, series, period), series, period)
    ELSE st

\* The whole call, for a valid period.
SMA(series, period) == SmaLoop(SmaStart, series, period).out

\* Closes of the series SMA is called on.
Closes == {1, 2, 5}

SmaReject ==
    /\ smaPc = "run"
    /\ ~ValidPeriod(smaSeries, smaPeriod)
    /\ smaPc' = "error"
    /\ UNCHANGED <<smaSeries, smaPeriod, smaOut, smaSum, smaIndex>>

SmaEntry ==
    /\ smaPc = "run"
    /\ ValidPeriod(smaSeries, smaPeriod)
    /\ smaIndex < Len(smaSeries)
    /\ LET st == SmaStep([out |-> smaOut, sum |-> smaSum, index |-> smaIndex],
                         smaSeries, smaPeriod)
       IN  smaOut' = st.out /\ smaSum' = st.sum /\ smaIndex' = st.index
    /\ UNCHANGED <<smaSeries, smaPeriod, smaPc>>

SmaReturn ==
    /\ smaPc = "run"
    /\ ValidPeriod(smaSeries, smaPeriod)
    /\ smaIndex >= Len(smaSeries)
    /\ smaPc' = "done"
    /\ UNCHANGED <<smaSeries, smaPeriod, smaOut, smaSum, smaIndex>>

SmaCalled(series, period) ==
    /\ smaSeries = series
    /\ smaPeriod = period
    /\ smaOut = SmaStart.out
    /\ smaSum = SmaStart.sum
    /\ smaIndex = SmaStart.index
    /\ smaPc = "run"

SmaIdle ==
    /\ smaSeries = <<>>
    /\ smaPeriod = 1
    /\ smaOut = <<>>
    /\ smaSum = 0
    /\ smaIndex = 0
    /\ smaPc = "idle"

-----------------------------------------------------------------------------
(* AIStockAnalysis, part_001:51-159.                                        *)
(*                                                                          *)
(* One instance of the component and the localStorage of its origin.  The   *)
(* storage keeps strings: the flag "freeTryUsed" and, per day, the counter  *)
(* "dailyLimit_<date>" in decimal.  generateSummary is split at its two     *)
(* awaits (fetchStockData, line 102, and fetchSummary, line 142).  The      *)
(* button that calls it is disabled while isLoading is set (line 217), so   *)
(* one instance has at most one call suspended.  The button and the closure *)
(* of generateSummary are those of the committed render: an update made by  *)
(* the effect of lines 66-76 or after an await is rendered in a later task, *)
(* the updates of a click are rendered before the click returns.            *)

MaxDays == 2          \* the days the clock runs through
DailyQuota == 10      \* analyses per day, line 92

Days == 1..MaxDays

\* A string is a sequence of characters; getItem returns null for a key that
\* was never set, and null || "0" and "" || "0" are both "0".
NoItem == <<>>
TrueString == <<"t", "r", "u", "e">>
DigitChars == <<"0", "1", "2", "3", "4", "5", "6", "7", "8", "9">>

\* Number.prototype.toString for a natural number.
RECURSIVE NumberToString(_)
NumberToString(n) ==
    IF n < 10 THEN <<DigitChars[n + 1]>>
    ELSE NumberToString(n \div 10) \o <<DigitChars[(n % 10) + 1]>>

DigitValue(ch) == (CHOOSE k \in 1..10 : DigitChars[k] = ch) - 1

\* parseInt(str, 10) for a string of decimal digits.
RECURSIVE ParseInt(_)
ParseInt(str) ==
    IF Len(str) = 1 THEN DigitValue(str[1])
    ELSE 10 * ParseInt(SubSeq(str, 1, Len(str) - 1)) + DigitValue(str[Len(str)])

\* lines 73-75 and 88-90: the counter of a day as the storage has it.
StoredDailyLimit(storage, day) ==
    ParseInt(IF storage.dailyLimit[day] = NoItem THEN <<"0">>
             ELSE storage.dailyLimit[day])

EmptyStorage == [freeTryUsed |-> NoItem, dailyLimit |-> [d \in Days |-> NoItem]]

NoSummary == ""
LimitMessage == "Daily limit of 10 analyses reached. Please try again tomorrow."
FailMessage == "Failed to generate summary. Please try again."
SummaryText == "summary"

NoCall == [stage |-> "none", user |-> FALSE, key |-> 0, dailyLimit |-> 0]

\* line 92
QuotaReached(signedIn, stored) == signedIn /\ stored >= DailyQuota

\* The state a render shows.
Rendered(freeTry, loading) == [hasUsedFreeTry |-> freeTry, isLoading |-> loading]

\* lines 58-65 with the component rendered for a user.
AnalysisConstructed(signedIn, storage, day) ==
    /\ analysisLife = "constructed"
    /\ user = signedIn
    /\ summary = NoSummary
    /\ analysisLoading = FALSE
    /\ hasUsedFreeTry = FALSE
    /\ analysisRendered = Rendered(FALSE, FALSE)
    /\ dailyLimit = 0
    /\ localStorage = storage
    /\ today = day
    /\ call = NoCall
    /\ outcome = "none"

\* No AIStockAnalysis is rendered.
AnalysisIdle ==
    /\ analysisLife = "idle"
    /\ user = FALSE
    /\ summary = NoSummary
    /\ analysisLoading = FALSE
    /\ hasUsedFreeTry = FALSE
    /\ analysisRendered = Rendered(FALSE, FALSE)
    /\ dailyLimit = 0
    /\ localStorage = EmptyStorage
    /\ today = 1
    /\ call = NoCall
    /\ outcome = "none"

\* lines 66-76: the effect of the first render.
AnalysisMount ==
    /\ analysisLife = "constructed"
    /\ analysisLife' = "mounted"
    /\ hasUsedFreeTry' = (localStorage.freeTryUsed = TrueString \/ hasUsedFreeTry)
    /\ dailyLimit' = StoredDailyLimit(localStorage, today)
    /\ UNCHANGED <<user, summary, analysisLoading, analysisRendered, localStorage,
                   today, call, outcome>>

\* The render of the updates that the effect or a finished call queued.
AnalysisRender ==
    /\ analysisLife = "mounted"
    /\ analysisRendered # Rendered(hasUsedFreeTry, analysisLoading)
    /\ analysisRendered' = Rendered(hasUsedFreeTry, analysisLoading)
    /\ UNCHANGED <<analysisLife, user, summary, analysisLoading, hasUsedFreeTry,
                   dailyLimit, localStorage, today, call, outcome>>

\* The parent passes another user prop: somebody signs in or out.  Its
\* render shows the queued updates as well.
ChangeUser ==
    /\ analysisLife = "mounted"
    /\ user' = ~user
    /\ analysisRendered' = Rendered(hasUsedFreeTry, analysisLoading)
    /\ UNCHANGED <<analysisLife, summary, analysisLoading, hasUsedFreeTry,
                   dailyLimit, localStorage, today, call, outcome>>

\* The page is loaded again: every suspended call is gone with the old
\* document, the storage stays.
Reload ==
    /\ analysisLife = "mounted"
    /\ analysisLife' = "constructed"
    /\ summary' = NoSummary
    /\ analysisLoading' = FALSE
    /\ hasUsedFreeTry' = FALSE
    /\ analysisRendered' = Rendered(FALSE, FALSE)
    /\ dailyLimit' = 0
    /\ call' = NoCall
    /\ outcome' = "none"
    /\ UNCHANGED <<user, localStorage, today>>

\* Midnight passes.
NewDay ==
    /\ analysisLife = "mounted"
    /\ today < MaxDays
    /\ today' = today + 1
    /\ UNCHANGED <<analysisLife, user, summary, analysisLoading, hasUsedFreeTry,
                   analysisRendered, dailyLimit, localStorage, call, outcome>>

\* lines 209-237: the button is rendered, and enabled.
ButtonEnabled ==
    ~(~user /\ analysisRendered.hasUsedFreeTry) /\ ~analysisRendered.isLoading

\* lines 83-103: generateSummary up to its first await, called by a click on
\* the button of the committed render, with the hasUsedFreeTry of that
\* render.  The button is there from the first commit on: when the effect
\* of lines 66-76 has not run yet, React runs it before it renders the
\* click's update, and the update the effect queued is not in that render.
ClickAnalyze ==
    /\ analysisLife \in {"constructed", "mounted"}
    /\ ButtonEnabled
    /\ analysisLife' = "mounted"
    /\ IF analysisLife = "constructed"
       THEN /\ hasUsedFreeTry' = (localStorage.freeTryUsed = TrueString)
            /\ dailyLimit' = StoredDailyLimit(localStorage, today)
       ELSE UNCHANGED <<hasUsedFreeTry, dailyLimit>>
    /\ IF ~user /\ analysisRendered.hasUsedFreeTry
       THEN /\ outcome' = "navigated"
            /\ UNCHANGED <<summary, analysisLoading, analysisRendered, call>>
       ELSE IF QuotaReached(user, StoredDailyLimit(localStorage, today))
       THEN /\ summary' = LimitMessage
            /\ outcome' = "refused"
            /\ UNCHANGED <<analysisLoading, analysisRendered, call>>
       ELSE /\ analysisLoading' = TRUE
            /\ analysisRendered' = [analysisRendered EXCEPT !.isLoading = TRUE]
            /\ call' = [stage |-> "stockData", user |-> user, key |-> today,
                        dailyLimit |-> StoredDailyLimit(localStorage, today)]
            /\ outcome' = "started"
            /\ UNCHANGED summary
    /\ UNCHANGED <<user, localStorage, today>>

\* lines 102-142: the stock data arrived with the symbol's history, the
\* indicators are computed and fetchSummary is called.
StockDataArrives ==
    /\ call.stage = "stockData"
    /\ call' = [call EXCEPT !.stage = "summary"]
    /\ outcome' = "analysing"
    /\ UNCHANGED <<analysisLife, user, summary, analysisLoading, hasUsedFreeTry,
                   analysisRendered, dailyLimit, localStorage, today>>

\* lines 144-157: fetchSummary resolved.  localStorage.setItem may throw
\* (the storage is full or refused); the catch block then replaces the
\* summary, after line 146 has run for an anonymous user and before line
\* 150 for a signed-in one.
SummaryArrives(setItemThrows) ==
    /\ call.stage = "summary"
    /\ IF setItemThrows
       THEN /\ summary' = FailMessage
            /\ hasUsedFreeTry' = IF ~call.user THEN TRUE ELSE hasUsedFreeTry
            /\ outcome' = "failed"
            /\ UNCHANGED <<localStorage, dailyLimit>>
       ELSE /\ summary' = SummaryText
            /\ outcome' = "ok"
            /\ IF ~call.user
               THEN /\ hasUsedFreeTry' = TRUE
                    /\ localStorage' = [localStorage EXCEPT !.freeTryUsed = TrueString]
                    /\ UNCHANGED dailyLimit
               ELSE /\ localStorage' =
                          [localStorage EXCEPT
                              !.dailyLimit[call.key] = NumberToString(call.dailyLimit + 1)]
                    /\ dailyLimit' = call.dailyLimit + 1
                    /\ UNCHANGED hasUsedFreeTry
    /\ analysisLoading' = FALSE
    /\ call' = NoCall
    /\ UNCHANGED <<analysisLife, user, analysisRendered, today>>

\* lines 152-157: one of the awaits rejected, or the response has no entry
\* for the symbol (line 110), and the catch block ran.
AnalysisFails ==
    /\ call.stage \in {"stockData", "summary"}
    /\ summary' = FailMessage
    /\ analysisLoading' = FALSE
    /\ call' = NoCall
    /\ outcome' = "failed"
    /\ UNCHANGED <<analysisLife, user, hasUsedFreeTry, analysisRendered, dailyLimit,
                   localStorage, today>>

-----------------------------------------------------------------------------
InitProfit ==
    /\ \E n \in 0..MaxLen :
         \E ps \in PriceSeries(n), rmi \in [1..n -> RmiVals] :
            ProfitEntry(ps, rmi)
    /\ BoardConstructed(<<>>)
    /\ SmaIdle
    /\ AnalysisIdle

NextProfit ==
    /\ (LoopStep \/ LoopExit \/ CloseOpen \/ Return)
    /\ UNCHANGED boardVars
    /\ UNCHANGED smaVars
    /\ UNCHANGED analysisVars

SpecProfit == InitProfit /\ [][NextProfit]_vars

InitBoard ==
    /\ ProfitIdle
    /\ \E u \in Universes : BoardConstructed(u)
    /\ SmaIdle
    /\ AnalysisIdle

NextBoard ==
    /\ \/ Mount
       \/ \E p \in Periods : ChangePeriod(p)
       \/ \E key \in ToggleKeys : ToggleIndicator(key)
       \/ \E u \in Universes : ChangeStocks(u)
       \/ FlushEffects
       \/ CommitStocks
       \/ RenderUpdates
       \/ \E t \in timers : TimerFire(t)
       \/ \E c \in inflight, choice \in DataChoices : FetchResolve(c, choice)
       \/ \E c \in inflight, reason \in RejectReasons : FetchReject(c, reason)
       \/ Unmount
       \/ RunCleanup
       \/ Tick
    /\ UNCHANGED smaVars
    /\ UNCHANGED analysisVars

SpecBoard == InitBoard /\ [][NextBoard]_vars

(* The component within one staleness window (the clock stands still, no   *)
(* timer is due), with what its scheduling guarantees: React runs the       *)
(* effects of the first render, and every fetch settles (the promise of     *)
(* line 138 resolves or rejects).  Nothing obliges the user to act or the   *)
(* component to be unmounted.  One checkbox stands for the three: which    *)
(* indicator a click enables does not matter to whether a cycle ends, and   *)
(* SpecToggle runs every combination of them.                               *)
WindowKeys == {"RSI"}

CycleIds == 1..(MaxCycles + 1)   \* a pending effect may start one more

Pending(id) == \E c \in inflight : c.id = id

Settle(id) ==
    /\ \E c \in inflight :
          /\ c.id = id
          /\ \/ \E reason \in RejectReasons : FetchReject(c, reason)
             \/ \E choice \in DataChoices : FetchResolve(c, choice)
    /\ UNCHANGED smaVars
    /\ UNCHANGED analysisVars

NextWindow ==
    /\ \/ Mount
       \/ \E p \in Periods : ChangePeriod(p)
       \/ \E key \in WindowKeys : ToggleIndicator(key)
       \/ \E u \in Universes : ChangeStocks(u)
       \/ FlushEffects
       \/ CommitStocks
       \/ \E c \in inflight, choice \in DataChoices : FetchResolve(c, choice)
       \/ \E c \in inflight, reason \in RejectReasons : FetchReject(c, reason)
       \/ Unmount
       \/ RunCleanup
    /\ UNCHANGED smaVars
    /\ UNCHANGED analysisVars

SpecBoardFair ==
    /\ InitBoard
    /\ [][NextWindow]_vars
    /\ WF_vars(Mount /\ UNCHANGED smaVars /\ UNCHANGED analysisVars)
    /\ \A id \in CycleIds : WF_vars(Settle(id))

(* The indicator checkboxes alone: the component is mounted once, for any   *)
(* universe, and the user clicks checkboxes, each click starting a cycle,   *)
(* while the fetches resolve in any order with any answer; no time passes,  *)
(* so that only line 131 decides whether a cycle fetches, and every set of  *)
(* enabled indicators is scanned.                                           *)
MaxToggles == 2   \* clicks on checkboxes in one run

\* line 289, for any of the three checkboxes.
ClickCheckbox(key) ==
    /\ nCycles <= MaxToggles
    /\ ClickCommit(selectedPeriod, toggleIndicator(enabledIndicators, key))

InitToggle ==
    /\ ProfitIdle
    /\ \E u \in Universes : BoardConstructed(u)
    /\ SmaIdle
    /\ AnalysisIdle

NextToggle ==
    /\ \/ Mount
       \/ \E k \in 1..Len(IndicatorKeys) : ClickCheckbox(IndicatorKeys[k])
       \/ \E c \in inflight, choice \in DataChoices : FetchResolve(c, choice)
    /\ UNCHANGED smaVars
    /\ UNCHANGED analysisVars

SpecToggle == InitToggle /\ [][NextToggle]_vars

InitSMA ==
    /\ ProfitIdle
    /\ BoardConstructed(<<>>)
    /\ \E n \in 0..MaxLen :
         \E series \in [1..n -> Closes], period \in 0..(n + 1) :
            SmaCalled(series, period)
    /\ AnalysisIdle

NextSMA ==
    /\ (SmaReject \/ SmaEntry \/ SmaReturn)
    /\ UNCHANGED profitVars
    /\ UNCHANGED boardVars
    /\ UNCHANGED analysisVars

SpecSMA == InitSMA /\ [][NextSMA]_vars

InitAnalysis ==
    /\ ProfitIdle
    /\ BoardConstructed(<<>>)
    /\ SmaIdle
    /\ \E signedIn \in BOOLEAN : AnalysisConstructed(signedIn, EmptyStorage, 1)

NextAnalysis ==
    /\ \/ AnalysisMount
       \/ AnalysisRender
       \/ ChangeUser
       \/ Reload
       \/ NewDay
       \/ ClickAnalyze
       \/ StockDataArrives
       \/ \E setItemThrows \in BOOLEAN : SummaryArrives(setItemThrows)
       \/ AnalysisFails
    /\ UNCHANGED profitVars
    /\ UNCHANGED boardVars
    /\ UNCHANGED smaVars

SpecAnalysis == InitAnalysis /\ [][NextAnalysis]_vars

Spec == SpecBoard

-----------------------------------------------------------------------------
(* Properties of calculateRMIProfit, checked under SpecProfit.              *)

\* The emitted events in index order: each index carries at most one event.
EventKindAt(x) ==
    IF \E k \in 1..Len(buyPoints) : buyPoints[k].x = x THEN "buy"
    ELSE IF \E k \in 1..Len(sellPoints) : sellPoints[k].x = x THEN "sell"
    ELSE "none"

EventIndices == {x \in 0..Len(rmiData) : EventKindAt(x) # "none"}

\* The index of the last event before index x, or -1.
PrevEvent(x) ==
    IF \E y \in EventIndices : y < x
    THEN CHOOSE y \in EventIndices : y < x /\ \A z \in EventIndices : z < x => z <= y
    ELSE 0 - 1

LastEvent == PrevEvent(Len(rmiData) + 1)
LastEventIsBuy == LastEvent >= 0 /\ EventKindAt(LastEvent) = "buy"
LastEventIsSell == LastEvent >= 0 /\ EventKindAt(LastEvent) = "sell"

AllPositive(ps) == \A k \in 1..Len(ps) : ps[k] > 0
NoNullPrice(ps) == \A k \in 1..Len(ps) : ps[k] # Null /\ ps[k] # Undef

\* C1: the emitted events never contain two buy events without a sell event
\* between them.
C1_NoTwoBuysWithoutSell ==
    \A a, b \in 1..Len(buyPoints) :
        a < b => \E k \in 1..Len(sellPoints) :
                    /\ buyPoints[a].x < sellPoints[k].x
                    /\ sellPoints[k].x < buyPoints[b].x

\* The capital the claim describes, replayed from the emitted events alone:
\* the events up to index x, each sell multiplying by 1 + (p1 - p0) / p0 with
\* p0 the price of the event just before it.
RECURSIVE ReplayCapital(_)
ReplayCapital(x) ==
    IF x < 0 THEN <<100, 1>>
    ELSE IF EventKindAt(x) = "sell"
         THEN LET p1 == At(prices, x)
                  p0 == At(prices, PrevEvent(x))
              IN  FracMul(ReplayCapital(x - 1), <<p1, p0>>)
         ELSE ReplayCapital(x - 1)

ReplayFinal ==
    IF LastEventIsBuy
    THEN FracMul(ReplayCapital(Len(rmiData)),
                 <<At(prices, Len(prices) - 1), At(prices, LastEvent)>>)
    ELSE ReplayCapital(Len(rmiData))

\* C8: for positive prices the returned profit is capital - 100, capital
\* starting at 100 and multiplied once per sell event, in order, by
\* 1 + (p1 - p0)/p0 = p1/p0 with p0 the price of the buy event just before
\* that sell, and once more by pLast/p0 when the last event is a buy.
C8_ProfitIsCompounded ==
    (pc = "done" /\ AllPositive(prices)) =>
        /\ \A x \in EventIndices :
              EventKindAt(x) = "sell" =>
                  PrevEvent(x) >= 0 /\ EventKindAt(PrevEvent(x)) = "buy"
        /\ profit[1] * ReplayFinal[2] = (ReplayFinal[1] - 100 * ReplayFinal[2]) * profit[2]

\* A call on positive prices that has returned with a gain after a sell and
\* a later buy that was still open at the end.
C8_Witness ==
    /\ pc = "done"
    /\ AllPositive(prices)
    /\ Len(sellPoints) >= 1
    /\ LastEventIsBuy
    /\ profit[1] > 0

\* The events and the reported prices are the same after a step as before.
EventsUntouched ==
    /\ sellPoints' = sellPoints
    /\ buyPoints' = buyPoints
    /\ latestBuyPrice' = latestBuyPrice
    /\ latestSellPrice' = latestSellPrice

\* Every sell event lies at a loop index where the oscillator went from
\* above 70 to below 70 (a null value counting as 0, as on line 51).
SellsAreCrossings ==
    \A k \in 1..Len(sellPoints) :
        LET x == sellPoints[k].x
        IN  /\ 1 <= x /\ x < Len(rmiData)
            /\ At(rmiData, x - 1) > 70
            /\ At(rmiData, x) # Undef /\ ToNumber(At(rmiData, x)) < 70

\* C9: the close of the open position at the end of the pass changes the
\* capital only: the step appends no sell event, leaves buyPoints, the
\* reported entry price and latestSellPrice alone; so does the return, and
\* every sell event lies at an index where the oscillator crossed 70 downward.
C9_CloseChangesCapitalOnly ==
    [][(pc \in {"close", "return"} => EventsUntouched) /\ SellsAreCrossings']_vars

\* The pass ended with a position open and the close changed the capital.
C9_Witness ==
    /\ pc = "return"
    /\ latestBuyPrice # Null
    /\ Len(buyPoints) >= 1
    /\ At(prices, Len(prices) - 1) # latestBuyPrice
    /\ capital # ReplayCapital(Len(rmiData))

\* C10 as claimed: on non-null prices the returned latestSellPrice is
\* non-null if and only if the most recent emitted event is a sell.
C10_SellPriceOnlyAfterSell ==
    (pc = "done" /\ NoNullPrice(prices)) =>
        (latestSellPrice # Null <=> LastEventIsSell)

\* C10 as amended: latestSellPrice is null as long as no sell event was
\* emitted and is the price of the most recent sell event from then on,
\* whether or not a buy event follows that sell.
C10_SellPriceIsLastSell ==
    pc # "idle" =>
        IF Len(sellPoints) = 0 THEN latestSellPrice = Null
        ELSE latestSellPrice = sellPoints[Len(sellPoints)].price

\* A returned call whose last event is a buy that follows a sell.
C10_Witness ==
    /\ pc = "done"
    /\ NoNullPrice(prices)
    /\ Len(sellPoints) >= 1
    /\ LastEventIsBuy
    /\ latestSellPrice = sellPoints[Len(sellPoints)].price

\* C11: on non-null prices the returned latestBuyPrice is non-null if and
\* only if the most recent emitted event is a buy (one no later sell has
\* closed), and it is then the price of that buy event.
C11_BuyPriceIffOpenBuy ==
    (pc = "done" /\ NoNullPrice(prices)) =>
        /\ latestBuyPrice # Null <=> LastEventIsBuy
        /\ LastEventIsBuy =>
              /\ buyPoints[Len(buyPoints)].x = LastEvent
              /\ latestBuyPrice = buyPoints[Len(buyPoints)].price
              /\ latestBuyPrice = At(prices, LastEvent)

\* A returned call that sold once and holds a position bought after that.
C11_Witness ==
    /\ pc = "done"
    /\ NoNullPrice(prices)
    /\ Len(sellPoints) = 1
    /\ LastEventIsBuy
    /\ LastEvent > sellPoints[1].x
    /\ latestBuyPrice = At(prices, LastEvent)

\* The crossings of the oscillator as the rules of the detector word them,
\* on defined values: upward through 30 (from below 30 to 30 or more) and
\* downward through 70 (from above 70 to below 70) between k - 1 and k.
Defined(v) == v # Null /\ v # Undef

UpCrossing(k) ==
    /\ Defined(At(rmiData, k - 1)) /\ Defined(At(rmiData, k))
    /\ At(rmiData, k - 1) < 30
    /\ At(rmiData, k) >= 30

DownCrossing(k) ==
    /\ Defined(At(rmiData, k - 1)) /\ Defined(At(rmiData, k))
    /\ At(rmiData, k - 1) > 70
    /\ At(rmiData, k) < 70

LoopIndices == 1..(Len(rmiData) - 1)
UpCrossings == {k \in LoopIndices : UpCrossing(k)}
DownCrossings == {k \in LoopIndices : DownCrossing(k)}

\* A position is open at index k: the last event before k is a buy.
PositionOpenAt(k) == PrevEvent(k) >= 0 /\ EventKindAt(PrevEvent(k)) = "buy"

\* C17: on an input whose only crossing is one upward crossing of 30, the
\* call returns exactly that buy, no sell, latestBuyPrice the buy's price,
\* latestSellPrice null and profit 100 * (lastPrice - buyPrice) / buyPrice.
C17_SingleOpenBuy ==
    ( /\ pc = "done"
      /\ AllPositive(prices)
      /\ Cardinality(UpCrossings) = 1
      /\ DownCrossings = {} )
    => LET b == CHOOSE k \in UpCrossings : TRUE
           buyPrice == At(prices, b)
           lastPrice == At(prices, Len(prices) - 1)
       IN  /\ Len(buyPoints) = 1
           /\ buyPoints[1].x = b
           /\ sellPoints = <<>>
           /\ latestBuyPrice = buyPrice
           /\ latestSellPrice = Null
           /\ profit[1] * buyPrice = 100 * (lastPrice - buyPrice) * profit[2]

\* C19: a buy event is emitted at index k exactly when no position is open
\* at k and the oscillator goes from a defined value below 30 at k - 1 to a
\* value of 30 or more at k.
C19_BuyAtUpwardCrossing ==
    pc = "done" =>
        \A k \in LoopIndices :
            EventKindAt(k) = "buy" <=> (UpCrossing(k) /\ ~PositionOpenAt(k))

\* C20: a sell event is emitted at index k only when a position is open at
\* k and the oscillator crosses 70 downward between k - 1 and k; the first
\* event is no sell, each sell follows a buy with no sell between them, and
\* no index has both a buy and a sell event.
C20_SellOnlyWhenLong ==
    pc = "done" =>
        /\ \A j \in 1..Len(sellPoints) :
              /\ PositionOpenAt(sellPoints[j].x)
              /\ DownCrossing(sellPoints[j].x)
        /\ \A j \in 1..Len(sellPoints), k \in 1..Len(buyPoints) :
              sellPoints[j].x # buyPoints[k].x

\* The loop is about to run its body at index i.
AtLoopIndex == pc = "loop" /\ i < Len(rmiData)

C21_Step ==
    ( /\ AtLoopIndex
      /\ ~Defined(At(rmiData, i - 1)) \/ ~Defined(At(rmiData, i)) )
    => (EventsUntouched /\ capital' = capital)

\* C21: at an index where the oscillator value at i - 1 or at i is
\* undefined or null the loop emits no event and changes neither the entry
\* price, the last sell price nor the capital, whether or not a position is
\* open.
C21_UndefinedIndexSkipped == [][C21_Step]_vars

C22_Step ==
    (AtLoopIndex /\ latestBuyPrice # Null /\ UpCrossing(i))
    => (latestBuyPrice' = latestBuyPrice /\ buyPoints' = buyPoints)

\* C22: while a position is open, an index at which the oscillator crosses
\* 30 upward again leaves the entry price and buyPoints as they are.
C22_NoReentryWhileLong == [][C22_Step]_vars

-----------------------------------------------------------------------------
(* Properties of the scan cycles of NotificationBoard, checked under        *)
(* SpecBoard.                                                               *)

\* The indicators an { key: boolean } object enables, as a set.
EnabledSet(obj) == {obj[k].key : k \in {j \in 1..Len(obj) : obj[j].on}}

\* A step that starts an invocation of checkForSignals, and one in which
\* that invocation calls fetchStockData.
CycleStarts == nCycles' = nCycles + 1
FetchIssued == inflight' # inflight /\ inflight \subseteq inflight'

\* What the claim lets a cycle fetch for, on the state the cycle starts in:
\* the refs as they are before the step, the period and the indicators the
\* component shows once the handler has run.
StaleAtStart ==
    \/ lastFetchTimeRef = NullRef
    \/ now - lastFetchTimeRef.time > 5
    \/ selectedPeriod' # lastFetchTimeRef.period
    \/ EnabledSet(enabledIndicators') # EnabledSet(lastFetchTimeRef.enabledIndicators)

CacheUntouched ==
    /\ cachedDataRef' = cachedDataRef
    /\ lastFetchTimeRef' = lastFetchTimeRef

\* The closures a step can invoke: that of the commit, those of the timers.
Closures == {callback'} \cup {t.cb : t \in timers}

C2_Step ==
    CycleStarts =>
        /\ FetchIssued <=> StaleAtStart
        /\ ~FetchIssued =>
              /\ inflight' = inflight
              /\ CacheUntouched
              /\ \E cl \in Closures :
                    /\ cl.stocks = lastCycle'.symbols
                    /\ IF Throws(cachedDataRef, cl)
                       THEN finished'.outcome = "threw"
                       ELSE /\ lastOutput' = Feed(cachedDataRef, cl)
                            /\ life' = "mounted" => notifications' = lastOutput'

\* C2: a scan cycle calls fetchStockData if and only if, as it starts, no
\* fetch is recorded, or the recorded fetch is more than 5 minutes old, or
\* the selected period or the set of enabled indicators differs from the
\* recorded one; every other cycle makes no fetch and runs its loop over
\* the cached dataset: its feed is built from that dataset, unless the loop
\* throws on it (the feed it hands over, which a mounted component shows).
C2_FetchIffStale == [][C2_Step]_vars

\* A cycle that reused the dataset the cycle before it had fetched.
C2_Witness ==
    /\ nCycles >= 2
    /\ lastFetchTimeRef # NullRef
    /\ lastFetchTimeRef.time <= lastCycle.start
    /\ ~lastCycle.fetched
    /\ finished = [id |-> lastCycle.id, outcome |-> "ok"]
    /\ notifications # <<>>

C3_Step ==
    ( /\ CycleStarts
      /\ nCycles >= 1
      /\ lastCycle.period = lastCycle'.period
      /\ EnabledSet(lastCycle.enabled) = EnabledSet(lastCycle'.enabled)
      /\ lastCycle'.start - lastCycle.start <= 5 )
    => ~(lastCycle.fetched /\ lastCycle'.fetched)

\* C3: two consecutive scan cycles with the same period and the same set of
\* enabled indicators, the second starting within five minutes of the first,
\* make at most one call of fetchStockData between them.
C3_AtMostOneFetch == [][C3_Step]_vars

\* C4: at no time are two invocations of checkForSignals suspended on their
\* fetch.
C4_CyclesSerialized == Cardinality(inflight) <= 1

\* A step in which the fetch of a cycle fails.
RejectStep == finished' # finished /\ finished'.outcome = "failed"

C5_Step ==
    /\ RejectStep =>
          /\ CacheUntouched
          /\ notifications' = notifications
          /\ lastUpdateTime' = lastUpdateTime
          /\ \E c \in inflight : c.id = finished'.id /\ inflight' = inflight \ {c}
          /\ life = "mounted" => error' # NoError
    /\ (CycleStarts /\ FetchIssued) => CacheUntouched

\* C5: a cycle whose fetch fails is aborted and reports an error, and none
\* of its steps writes the cache: the cached dataset and the recorded fetch
\* time, period and indicators are after the failure what they were before.
C5_FailedFetchKeepsCache == [][C5_Step]_vars

\* A mounted board whose last cycle failed while a dataset is cached.
C5_Witness ==
    /\ life = "mounted"
    /\ finished.outcome = "failed"
    /\ \E reason \in RejectReasons : error = ErrorMessage(reason)
    /\ lastFetchTimeRef # NullRef
    /\ DOMAIN cachedDataRef # {}

\* A step in which a cycle ends in the catch block: its fetch failed, or
\* its loop threw.
FailStep == finished' # finished /\ finished'.outcome \in {"failed", "threw"}

C6_Step ==
    /\ FailStep =>
          /\ notifications' = notifications
          /\ lastUpdateTime' = lastUpdateTime
          /\ life = "mounted" => error' # NoError
    /\ (notifications' # notifications \/ lastUpdateTime' # lastUpdateTime) =>
          finished' # finished /\ finished'.outcome = "ok"
    /\ life' = "mounted" => notifications' = lastOutput'

\* C6: the feed and the last-update time change only in a step in which a
\* cycle completes successfully; the step in which a scan fails leaves both
\* as they were and sets the error flag; and the feed of a mounted board is
\* the output of the cycle that completed successfully last.
C6_FeedOnlyFromSuccess == [][C6_Step]_vars

\* A mounted board that still shows a feed after its last cycle failed.
C6_Witness ==
    /\ life = "mounted"
    /\ finished.outcome = "failed"
    /\ error # NoError
    /\ notifications # <<>>
    /\ notifications = lastOutput

C7_Step ==
    life = "unmounted" =>
        /\ CacheUntouched
        /\ notifications' = notifications
        /\ lastUpdateTime' = lastUpdateTime
        /\ isLoading' = isLoading
        /\ error' = error

\* C7: after the unmount a cycle writes neither the cache nor the feed, the
\* last-update time, the loading flag or the error flag.
C7_NoWriteAfterUnmount == [][C7_Step]_vars

-----------------------------------------------------------------------------
(* Properties of the feed one scan cycle produces, checked under SpecBoard; *)
(* C12, which is about the records of each set of enabled indicators, under *)
(* SpecToggle.                                                              *)

\* A step in which a cycle completes successfully.  The dataset it scanned is
\* the cached one after the step, its feed the one handed to setNotifications.
SuccessStep == finished' # finished /\ finished'.outcome = "ok"

\* The symbols and the enabled indicators of the cycle that completes: those
\* of the suspended invocation that resumes, or of the one that just started.
FinishingSymbols ==
    IF \E c \in inflight : c.id = finished'.id
    THEN (CHOOSE c \in inflight : c.id = finished'.id).cl.stocks
    ELSE lastCycle'.symbols

FinishingEnabled ==
    IF \E c \in inflight : c.id = finished'.id
    THEN (CHOOSE c \in inflight : c.id = finished'.id).cl.enabled
    ELSE lastCycle'.enabled

SeqToSet(q) == {q[k] : k \in 1..Len(q)}

\* The positions of the records of one (symbol, indicator) pair in a feed.
PairRecords(feed, s, key) ==
    {k \in 1..Len(feed) : feed[k].stock = s /\ feed[k].indicator = key}

\* All buy and sell events of a pair's series, each with its kind.
PairEvents(key, entry) ==
    LET r == CalculateProfit(key, ClosingPrices(entry.history), entry)
    IN  {[kind |-> "buy", x |-> r.buyPoints[k].x, price |-> r.buyPoints[k].price] :
            k \in 1..Len(r.buyPoints)}
        \cup
        {[kind |-> "sell", x |-> r.sellPoints[k].x, price |-> r.sellPoints[k].price] :
            k \in 1..Len(r.sellPoints)}

LatestEvent(events) == CHOOSE e \in events : \A f \in events : f.x <= e.x

C12_Step ==
    SuccessStep =>
        LET feed == lastOutput'
            response == cachedDataRef'
        IN  /\ \A k \in 1..Len(feed) :
                  /\ feed[k].stock \in SeqToSet(FinishingSymbols)
                  /\ Enabled(FinishingEnabled, feed[k].indicator)
            /\ \A s \in SeqToSet(FinishingSymbols), key \in SeqToSet(IndicatorKeys) :
                  LET recs == PairRecords(feed, s, key)
                      events == IF HasHistory(response, s) /\ Enabled(FinishingEnabled, key)
                                THEN PairEvents(key, response[s])
                                ELSE {}
                  IN  /\ Cardinality(recs) <= 1
                      /\ events = {} => recs = {}
                      /\ events # {} =>
                            \E k \in recs :
                                /\ feed[k].signal = LatestEvent(events).kind
                                /\ feed[k].price = LatestEvent(events).price

\* C12: the feed of a cycle holds at most one record per (symbol, enabled
\* indicator) pair; a pair with events has the record of its event of
\* greatest index, with that event's kind and price; a pair without event,
\* and a pair of a disabled indicator, has no record.
C12_OneRecordPerPair == [][C12_Step]_vars

C13_Step ==
    (SuccessStep /\ life = "mounted" /\ lastFetchTimeRef # NullRef) =>
        \A k \in 1..Len(notifications') :
            notifications'[k].isNew <=> notifications'[k].timestamp > lastUpdateTime

\* C13: in every cycle of a mounted board that follows a successfully
\* completed one, a record is flagged new if and only if its timestamp is
\* later than the last-update time the previous successful cycle stored
\* (the component's lastUpdateTime as the cycle completes).
C13_IsNewSincePreviousScan == [][C13_Step]_vars

\* The time the completing cycle started at (its currentTime, line 123).
FinishingTime ==
    IF \E c \in inflight : c.id = finished'.id
    THEN (CHOOSE c \in inflight : c.id = finished'.id).currentTime
    ELSE lastCycle'.start

\* A record without its isNew flag.
Event(r) ==
    [stock |-> r.stock, indicator |-> r.indicator, signal |-> r.signal,
     price |-> r.price, timestamp |-> r.timestamp]

\* The events a feed reports for one symbol.
EventsOf(feed, s) == {Event(feed[k]) : k \in {j \in 1..Len(feed) : feed[j].stock = s}}

C14_Step ==
    /\ (finished' # finished /\ ~CacheUntouched) => finished'.outcome = "ok"
    /\ SuccessStep =>
          LET feed == lastOutput'
              response == cachedDataRef'
          IN  /\ \A s \in SeqToSet(FinishingSymbols) :
                    IF HasHistory(response, s)
                    THEN EventsOf(feed, s) =
                         EventsOf(SymbolNotifications(s, response[s], FinishingEnabled, 0, 1), s)
                    ELSE EventsOf(feed, s) = {}
              /\ life = "mounted" =>
                    /\ notifications' = feed
                    /\ lastUpdateTime' = FinishingTime
                    /\ error' = NoError

\* C14: a cycle whose fetch returned completes successfully whatever is
\* wrong with one symbol of the dataset: a symbol without entry or without
\* history has no record, every other symbol of the universe has the
\* records it has when scanned alone, and the board gets the feed, the
\* cycle's time as last-update time, and no error.
C14_MissingSymbolSkipped == [][C14_Step]_vars

SortedDescending(feed) ==
    \A k \in 1..(Len(feed) - 1) : feed[k].timestamp >= feed[k + 1].timestamp

\* C15: the feed a successfully completed cycle stores is sorted by event
\* timestamp, latest first: of two adjacent records the first has a
\* timestamp greater than or equal to that of the second.
C15_FeedSortedDescending ==
    /\ SortedDescending(notifications)
    /\ SortedDescending(lastOutput)

\* A stored feed in which a record of the second symbol of the universe
\* comes before an earlier record of the first.
C15_Witness ==
    /\ life = "mounted"
    /\ finished.outcome = "ok"
    /\ Len(notifications) >= 2
    /\ notifications[1].stock = "MSFT"
    /\ notifications[Len(notifications)].stock = "AAPL"
    /\ notifications[1].timestamp > notifications[Len(notifications)].timestamp

-----------------------------------------------------------------------------
(* Properties of the timers, the cache and the overlapping cycles of        *)
(* NotificationBoard, checked under SpecBoard.                              *)

\* The timers after a step: at most one, the one the last run of the
\* effect scheduled; none after teardown.
TimersAfter ==
    /\ Cardinality(timers') <= 1
    /\ \A t \in timers' : t.id = intervalId'
    /\ life' = "unmounted" => timers' = {}

\* The step is a timer's callback: a cycle starts and the effect has not run.
TimerStartsCycle == CycleStarts /\ intervalId' = intervalId

C23_Step ==
    /\ TimersAfter
    /\ TimerStartsCycle =>
          /\ lastCycle'.symbols = availableStocks'
          /\ lastCycle'.period = selectedPeriod'
          /\ lastCycle'.enabled = enabledIndicators'

\* C23: at most one interval timer is pending, the one the last run of the
\* effect scheduled; after teardown no timer is pending; and every cycle
\* a timer starts is one for the period, the indicator set and the symbol
\* universe the component has been given: no timer made for old parameters
\* starts a cycle after the change.
C23_OnePendingTimer == [][C23_Step]_vars

\* C24: the comparison of line 131 finds the enabled-indicator set of a
\* cycle equal to the recorded one exactly when both enable the same
\* indicators, in every state the checkboxes lead to.
C24_SetComparison ==
    lastFetchTimeRef # NullRef
    => ( JsonStringify(enabledIndicators)
            = JsonStringify(lastFetchTimeRef.enabledIndicators)
         <=> EnabledSet(enabledIndicators)
                = EnabledSet(lastFetchTimeRef.enabledIndicators) )

\* After two clicks or more the set is the recorded one again and the
\* cycle of the last click used the cached dataset.
C24_Witness ==
    /\ lastFetchTimeRef # NullRef
    /\ nCycles >= 3
    /\ lastCycle.id = nCycles
    /\ ~lastCycle.fetched
    /\ EnabledSet(enabledIndicators)
          = EnabledSet(lastFetchTimeRef.enabledIndicators)

C25_Step ==
    /\ (SuccessStep /\ finished.outcome = "ok") => finished'.id > finished.id
    /\ (lastFetchTimeRef # NullRef /\ lastFetchTimeRef' # NullRef)
          => lastFetchTimeRef'.time >= lastFetchTimeRef.time

\* C25: a cycle that completes after a cycle started later has completed
\* does not overwrite what that cycle wrote (the cycles complete in the
\* order they started in), and the recorded fetch time never decreases.
C25_LaterCycleWins == [][C25_Step]_vars

C26_Step ==
    (CycleStarts /\ ~FetchIssued) => cacheFetch.symbols = lastCycle'.symbols

\* C26: a cycle that uses the cached dataset iterates over the symbol list
\* the dataset was requested for.
C26_CacheForSameUniverse == [][C26_Step]_vars

\* The history has a point with this date and this Close.
ObservedAt(history, timestamp, price) ==
    \E j \in 1..Len(history) :
        history[j].date = timestamp /\ history[j].Close = price

C27_Step ==
    SuccessStep =>
        \A k \in 1..Len(lastOutput') :
            ObservedAt(cachedDataRef'[lastOutput'[k].stock].history,
                       lastOutput'[k].timestamp, lastOutput'[k].price)

\* C27: every record of the feed a cycle produces carries the date of the
\* history point whose Close is the record's price.
C27_TimestampOfPricePoint == [][C27_Step]_vars

\* C28: whenever a fetch record exists, its time, period and indicator set
\* are those of the request whose response is the cached dataset, and the
\* cached dataset is a response to that request.
C28_CacheConsistent ==
    lastFetchTimeRef # NullRef =>
        /\ cacheFetch # NoFetch
        /\ lastFetchTimeRef.time = cacheFetch.time
        /\ lastFetchTimeRef.period = cacheFetch.period
        /\ lastFetchTimeRef.enabledIndicators = cacheFetch.enabled
        /\ \E choice \in DataChoices :
              cachedDataRef = Response(cacheFetch.symbols, cacheFetch.time, choice)

\* A later cycle with other parameters failed after a fetch had filled the
\* cache.
C28_Witness ==
    /\ lastFetchTimeRef # NullRef
    /\ DOMAIN cachedDataRef # {}
    /\ finished.outcome = "failed"
    /\ lastCycle.id = finished.id
    /\ lastCycle.fetched
    /\ \/ lastCycle.period # lastFetchTimeRef.period
       \/ lastCycle.start # lastFetchTimeRef.time

\* A cycle ends while the component is mounted: it succeeded, and then the
\* feed and the last-update time are its own and the error is cleared, or
\* it failed, and then an error is shown; either way the loading flag is
\* off unless the cycle never fetched.
C29_Step ==
    (finished' # finished /\ life = "mounted") =>
        /\ finished'.outcome \in {"ok", "failed", "threw"}
        /\ finished'.outcome = "ok" =>
              /\ notifications' = lastOutput'
              /\ lastUpdateTime' = FinishingTime
              /\ error' = NoError
        /\ finished'.outcome \in {"failed", "threw"} => error' # NoError
        /\ Pending(finished'.id) => ~isLoading'

\* C29: every cycle whose fetch is pending ends, as a success or as a
\* failure, and a loading flag that is on goes off, as long as the component
\* is not unmounted meanwhile.
C29_CyclesTerminate ==
    /\ [][C29_Step]_vars
    /\ \A id \in CycleIds : Pending(id) ~> ~Pending(id)
    /\ (isLoading /\ life # "unmounted") ~> (~isLoading \/ life = "unmounted")

\* A fetch failed while the component was mounted: the error is shown, the
\* loading flag is off and nothing is pending.
C29_Witness ==
    /\ life = "mounted"
    /\ finished.outcome = "failed"
    /\ nCycles >= 2
    /\ inflight = {}
    /\ ~isLoading
    /\ error # NoError


-----------------------------------------------------------------------------
(* Properties of SMA, checked under SpecSMA.                                *)

\* The sum of the closes at the 0-based indices a..b of the series.
RECURSIVE SumOfCloses(_, _, _)
SumOfCloses(series, a, b) ==
    IF a > b THEN 0 ELSE At(series, a) + SumOfCloses(series, a + 1, b)

\* C18: for a series of length n and a period p with 1 <= p <= n the output
\* has length n, its first p - 1 entries are undefined, and its entry at
\* each index k >= p - 1 is the mean of the p closes at k - p + 1 .. k.
C18_SmaIsTrailingMean ==
    (smaPc = "done" /\ ValidPeriod(smaSeries, smaPeriod)) =>
        /\ Len(smaOut) = Len(smaSeries)
        /\ \A k \in 0..(Len(smaSeries) - 1) :
              IF k < smaPeriod - 1
              THEN smaOut[k + 1] = NoValue
              ELSE /\ smaOut[k + 1] # NoValue
                   /\ smaOut[k + 1][2] > 0
                   /\ smaOut[k + 1][1] * smaPeriod =
                      SumOfCloses(smaSeries, k - smaPeriod + 1, k) * smaOut[k + 1][2]

\* A returned call whose window has slid: the period is at least 2, shorter
\* than the series by 2 or more, and the closes that left the window differ
\* from those that entered it.
C18_Witness ==
    /\ smaPc = "done"
    /\ smaPeriod >= 2
    /\ Len(smaSeries) >= smaPeriod + 2
    /\ smaOut[1] = NoValue
    /\ smaOut[Len(smaOut)] # NoValue
    /\ smaOut[Len(smaOut)] # smaOut[Len(smaOut) - 1]
    /\ smaOut[Len(smaOut) - 1] # smaOut[Len(smaOut) - 2]

-----------------------------------------------------------------------------
(* The quota of AIStockAnalysis, checked under SpecAnalysis.                *)

\* A call of generateSummary ends successfully, fails, or is refused.
AnalysisSucceeds == outcome' = "ok" /\ outcome # "ok"
AnalysisFailed == outcome' = "failed" /\ outcome # "failed"
AnalysisRefused == outcome' \in {"refused", "navigated"}

\* The free try is used: the component says so, or the storage does (the
\* effect of lines 66-76 copies the stored flag into the component).
FreeTryConsumed == hasUsedFreeTry \/ localStorage.freeTryUsed = TrueString

C30_Step ==
    /\ (AnalysisSucceeds /\ call.user) =>
          /\ StoredDailyLimit(localStorage', call.key)
                = StoredDailyLimit(localStorage, call.key) + 1
          /\ \A d \in Days \ {call.key} :
                localStorage'.dailyLimit[d] = localStorage.dailyLimit[d]
          /\ localStorage'.freeTryUsed = localStorage.freeTryUsed
    /\ (AnalysisFailed \/ AnalysisRefused) =>
          /\ localStorage' = localStorage
          /\ FreeTryConsumed' = FreeTryConsumed
          /\ analysisLife = "mounted" =>
                (hasUsedFreeTry' = hasUsedFreeTry /\ dailyLimit' = dailyLimit)
    /\ (call = NoCall /\ call' # NoCall) =>
          ~(user /\ StoredDailyLimit(localStorage, today) >= DailyQuota)

\* C30: a successful analysis of a signed-in user adds exactly one to the
\* stored counter of its day, a failed or refused one changes neither the
\* counter nor the free try, no counter exceeds 10, and with the counter at
\* 10 a signed-in user's click starts no call (no fetch is made).
C30_QuotaCounted ==
    /\ [][C30_Step]_vars
    /\ [](\A d \in Days : StoredDailyLimit(localStorage, d) <= DailyQuota)

====
